---- MODULE Spec2Model ----
(***************************************************************************)
(* State-machine model of the manga editor component                       *)
(* (src/components/MangaEditor.tsx) and of the collaborators it awaits     *)
(* (src/services/geminiService.ts).                                        *)
(*                                                                         *)
(* Numbers.  Relative pointer coordinates (the [0,1] values returned by    *)
(* getRelativeCoords) are fixed-point with denominator RelDen; box values  *)
(* are in the 0..1000 units of BoundingBox; fontSizeScale is in tenths.    *)
(* The pointer positions fed to the model are multiples of RelDen / 1000,  *)
(* so that every product coords * 1000 is a whole number of box units.     *)
(*                                                                         *)
(* Closures.  A handler reads the state of the render it was created in.   *)
(* A synchronous handler therefore reads the current state; the            *)
(* continuation of an async handler (the code after an await) still reads  *)
(* the values captured when the handler started.  Each outstanding         *)
(* continuation is a record of `pending` holding exactly those values.     *)
(***************************************************************************)
EXTENDS Integers, Sequences, FiniteSets, TLC

VARIABLES
    history,         \* useState<TextBubble[][]>([[]])
    historyIndex,    \* useState(0)
    bubbles,         \* useState<TextBubble[]>([])
    isProcessing,    \* useState(false)
    tool,            \* 'select' | 'draw' | 'pan' | 'tree'
    drawShape,       \* 'rectangle' | 'ellipse'
    scale,           \* viewport zoom, in hundredths
    offset,          \* viewport pan offset
    isPanning,
    panStart,
    isSpacePressed,
    editingId,
    editText,
    editTextColor,
    editBgColor,
    editFontFamily,
    drawSelection,   \* null | {start, current}
    draggingId,
    resizingId,
    resizeHandle,
    dragOffset,
    isDragging,
    connections,     \* [string, string][]
    activeTreeNode,
    pending,         \* outstanding continuations of async handlers
    clock,           \* Date.now()
    crashed,         \* the render threw: bubbles is undefined in bubbles.map
    alert,           \* the message the last handler passed to alert(), "" if none
    canvas,          \* what handleDownload drew last, per bubble; null before
    walk,            \* the locals of the chain decomposition, run step by step
    ev               \* the handler that ran last

histVars == <<history, historyIndex, bubbles>>
viewVars == <<scale, offset, isPanning, panStart, isSpacePressed>>
editVars == <<editingId, editText, editTextColor, editBgColor, editFontFamily>>
gestureVars == <<drawSelection, draggingId, resizingId, resizeHandle, dragOffset, isDragging>>
linkVars == <<connections, activeTreeNode>>
vars == <<history, historyIndex, bubbles, isProcessing, tool, drawShape,
          scale, offset, isPanning, panStart, isSpacePressed,
          editingId, editText, editTextColor, editBgColor, editFontFamily,
          drawSelection, draggingId, resizingId, resizeHandle, dragOffset, isDragging,
          connections, activeTreeNode, pending, clock, crashed, alert, canvas,
          walk, ev>>

(***************************************************************************)
(* Values                                                                  *)
(***************************************************************************)
Null == <<>>                 \* null; a present optional value v is <<v>>, an id is a tuple
NoHandle == ""               \* resizeHandle === null
Undefined == "undefined"     \* an absent optional string field
RelDen == 10000              \* denominator of the fixed-point relative coordinates
BoxScale == 1000             \* coords.x * 1000
MinBoxSize == 10             \* xmax - 10, xmin + 10
DefaultFontScale == 10       \* fontSizeScale: 1, in tenths
Black == "#000000"
White == "#FFFFFF"
ComicNeue == "Comic Neue"
NoAlert == ""
ScanFailedAlert == "Auto scan failed. Please try manual selection."
RetranslatedAlert == "Linked bubbles have been retranslated with context!"
Placeholder == "..."

Min(a, b) == IF a < b THEN a ELSE b
Max(a, b) == IF a > b THEN a ELSE b

SeqToSet(s) == {s[i] : i \in 1..Len(s)}

RECURSIVE SeqFilter(_, _)
\* Array.prototype.filter with Keep(x) given as the set of kept values.
SeqFilter(s, keep) ==
    IF s = <<>> THEN <<>>
    ELSE IF Head(s) \in keep THEN <<Head(s)>> \o SeqFilter(Tail(s), keep)
    ELSE SeqFilter(Tail(s), keep)

Ids(bs) == {bs[i].id : i \in 1..Len(bs)}

\* bubbles.find(b => b.id === id), for an id that is present
FindBubble(bs, id) == bs[CHOOSE i \in 1..Len(bs) : bs[i].id = id /\ \A j \in 1..(i-1) : bs[j].id # id]

\* bubbles.filter(b => b.id !== id)
WithoutBubble(bs, id) == SeqFilter(bs, {b \in SeqToSet(bs) : b.id # id})

\* a map that replaces whatever it visits
ReplaceEveryBubble(bs, id, nb) == [i \in 1..Len(bs) |-> nb]

\* bubbles.map(b => b.id === id ? f(b) : b) with f(b) given as the replacement
ReplaceBubble(bs, id, nb) == [i \in 1..Len(bs) |-> IF bs[i].id = id THEN nb ELSE bs[i]]

(***************************************************************************)
(* History                                                                 *)
(***************************************************************************)
\* prev.slice(0, historyIndex + 1): Array.prototype.slice clips at the length
SliceTo(h, n) == SubSeq(h, 1, Min(n, Len(h)))

\* addToHistory as seen by a closure that captured historyIndex = h0:
\* setHistory(prev => [...prev.slice(0, h0 + 1), newBubbles]);
\* setHistoryIndex(prev => prev + 1); setBubbles(newBubbles)
HistoryAfterCommit(h, h0, newBubbles) == Append(SliceTo(h, h0 + 1), newBubbles)

addToHistory(h0, newBubbles) ==
    /\ history' = HistoryAfterCommit(history, h0, newBubbles)
    /\ historyIndex' = historyIndex + 1
    /\ bubbles' = newBubbles

\* ev records the handler that ran last: its name, the bubble id it was about,
\* whether it called addToHistory, its input (pointer event or collaborator
\* response), and what it started from: historyIndex, history.length,
\* bubbles.length, connections.length and activeTreeNode.
Log(op, arg, commit, input) ==
    /\ ev' = [op |-> op, arg |-> arg, commit |-> commit, input |-> input,
              idx |-> historyIndex, len |-> Len(history), n |-> Len(bubbles),
              links |-> Len(connections), active |-> activeTreeNode]
    /\ alert' = NoAlert
    /\ UNCHANGED <<walk, canvas>>

\* the same for a handler that calls alert(message)
LogAlert(op, arg, commit, input, message) ==
    /\ ev' = [op |-> op, arg |-> arg, commit |-> commit, input |-> input,
              idx |-> historyIndex, len |-> Len(history), n |-> Len(bubbles),
              links |-> Len(connections), active |-> activeTreeNode]
    /\ alert' = message
    /\ UNCHANGED <<walk, canvas>>


(***************************************************************************)
(* Bounds of the model                                                     *)
(***************************************************************************)
MaxHistory == 3      \* commits are enabled while history.length < MaxHistory
MaxBubbles == 3      \* bubbles are created while bubbles.length < MaxBubbles
MaxPending == 2      \* async handlers are started while fewer are outstanding
MaxClock == 2        \* Date.now() values handed out

CanCommit == Len(history) < MaxHistory /\ historyIndex < MaxHistory
CanStart == Len(pending) < MaxPending

(***************************************************************************)
(* Construction                                                            *)
(***************************************************************************)
InitEditor ==
    /\ history = << <<>> >>
    /\ historyIndex = 0
    /\ bubbles = <<>>
    /\ isProcessing = FALSE
    /\ tool = "draw"
    /\ drawShape = "rectangle"
    /\ scale = 100
    /\ offset = [x |-> 0, y |-> 0]
    /\ isPanning = FALSE
    /\ panStart = [x |-> 0, y |-> 0]
    /\ isSpacePressed = FALSE
    /\ editingId = Null
    /\ editText = ""
    /\ editTextColor = Black
    /\ editBgColor = White
    /\ editFontFamily = ComicNeue
    /\ drawSelection = Null
    /\ draggingId = Null
    /\ resizingId = Null
    /\ resizeHandle = NoHandle
    /\ dragOffset = Null
    /\ isDragging = FALSE
    /\ connections = <<>>
    /\ activeTreeNode = Null
    /\ pending = <<>>
    /\ clock = 1
    /\ crashed = FALSE
    /\ alert = NoAlert
    /\ canvas = Null
    /\ ev = [op |-> "init", arg |-> Null, commit |-> FALSE, input |-> Null,
             idx |-> 0, len |-> 1, n |-> 0, links |-> 0, active |-> Null]

\* No decomposition is running.
WalkIdle ==
    [pc |-> "idle", conn |-> <<>>, todo |-> <<>>, visited |-> {}, chains |-> <<>>,
     path |-> <<>>, curr |-> Null, ret |-> "idle", iterations |-> 0]

Init == InitEditor /\ walk = WalkIdle

(***************************************************************************)
(* Undo / redo                                                             *)
(***************************************************************************)
\* history[newIndex] is undefined when newIndex is not an index of history;
\* setBubbles(undefined) makes the next render throw.
UndoResult(h, i, b) ==
    IF i > 0
    THEN LET newIndex == i - 1 IN
         [historyIndex |-> newIndex,
          bubbles |-> IF newIndex < Len(h) THEN h[newIndex + 1] ELSE b,
          crashed |-> ~(newIndex < Len(h))]
    ELSE [historyIndex |-> i, bubbles |-> b, crashed |-> FALSE]

\* a redo that shows the last snapshot again when there is nothing to redo
RedoReappliesLast(h, i, b) ==
    IF i < Len(h) - 1
    THEN LET newIndex == i + 1 IN
         [historyIndex |-> newIndex, bubbles |-> h[newIndex + 1], crashed |-> FALSE]
    ELSE [historyIndex |-> i, bubbles |-> h[Len(h)], crashed |-> FALSE]

\* handleRedo: if (historyIndex < history.length - 1) { ... }
RedoResult(h, i, b) ==
    IF i < Len(h) - 1
    THEN LET newIndex == i + 1 IN
         [historyIndex |-> newIndex, bubbles |-> h[newIndex + 1], crashed |-> FALSE]
    ELSE [historyIndex |-> i, bubbles |-> b, crashed |-> FALSE]

\* an undo that also drops the links
handleUndoClearingLinks ==
    /\ ~crashed
    /\ LET r == UndoResult(history, historyIndex, bubbles) IN
       /\ historyIndex' = r.historyIndex
       /\ bubbles' = r.bubbles
       /\ crashed' = r.crashed
    /\ connections' = <<>>
    /\ Log("undo", Null, FALSE, Null)
    /\ UNCHANGED <<history, isProcessing, tool, drawShape, viewVars, editVars,
                   gestureVars, activeTreeNode, pending, clock>>

\* Ctrl+Z and the Undo button
handleUndo ==
    /\ ~crashed
    /\ LET r == UndoResult(history, historyIndex, bubbles) IN
       /\ historyIndex' = r.historyIndex
       /\ bubbles' = r.bubbles
       /\ crashed' = r.crashed
    /\ Log("undo", Null, FALSE, Null)
    /\ UNCHANGED <<history, isProcessing, tool, drawShape, viewVars, editVars,
                   gestureVars, linkVars, pending, clock>>

handleRedo ==
    /\ ~crashed
    /\ LET r == RedoResult(history, historyIndex, bubbles) IN
       /\ historyIndex' = r.historyIndex
       /\ bubbles' = r.bubbles
       /\ crashed' = r.crashed
    /\ Log("redo", Null, FALSE, Null)
    /\ UNCHANGED <<history, isProcessing, tool, drawShape, viewVars, editVars,
                   gestureVars, linkVars, pending, clock>>

(***************************************************************************)
(* Delete                                                                  *)
(***************************************************************************)
\* only the links leaving id are removed
WithoutLinksFrom(conn, id) ==
    SeqFilter(conn, {c \in SeqToSet(conn) : c[1] # id})

\* prev.filter(([start, end]) => start !== id && end !== id)
WithoutLinksOf(conn, id) ==
    SeqFilter(conn, {c \in SeqToSet(conn) : c[1] # id /\ c[2] # id})

\* The delete button of a bubble is rendered when tool === 'select' && !isEditing.
handleDeleteBubble(id) ==
    /\ ~crashed
    /\ tool = "select"
    /\ editingId # id
    /\ id \in Ids(bubbles)
    /\ CanCommit
    /\ addToHistory(historyIndex, WithoutBubble(bubbles, id))
    /\ connections' = WithoutLinksOf(connections, id)
    /\ Log("delete", id, TRUE, Null)
    /\ UNCHANGED <<isProcessing, tool, drawShape, viewVars, editVars, gestureVars,
                   activeTreeNode, pending, clock, crashed>>

(***************************************************************************)
(* Toolbar                                                                 *)
(***************************************************************************)
setTool(t) ==
    /\ ~crashed
    /\ tool # t
    /\ tool' = t
    /\ Log("setTool", Null, FALSE, Null)
    /\ UNCHANGED <<histVars, isProcessing, drawShape, viewVars, editVars,
                   gestureVars, linkVars, pending, clock, crashed>>

\* The shape button is rendered when tool === 'draw'.
toggleDrawShape ==
    /\ ~crashed
    /\ tool = "draw"
    /\ drawShape' = (IF drawShape = "rectangle" THEN "ellipse" ELSE "rectangle")
    /\ Log("toggleDrawShape", Null, FALSE, Null)
    /\ UNCHANGED <<histVars, isProcessing, tool, viewVars, editVars,
                   gestureVars, linkVars, pending, clock, crashed>>

(***************************************************************************)
(* Viewport: zoom and the space key                                        *)
(***************************************************************************)
\* scale is in hundredths: 0.5, 5 and the 0.25 of the zoom buttons
MinScale == 50
MaxScale == 500
ZoomStep == 25

\* delta = -e.deltaY * 0.001, in hundredths (deltaY is a multiple of 10)
WheelScale(s, deltaY) == Min(Max(MinScale, s - (deltaY \div 10)), MaxScale)

\* a wheel handler that records the zoom as a step of the history
handleWheelCommitting(deltaY) ==
    /\ ~crashed
    /\ scale' = WheelScale(scale, deltaY)
    /\ addToHistory(historyIndex, bubbles)
    /\ Log("wheel", Null, TRUE, deltaY)
    /\ UNCHANGED <<isProcessing, tool, drawShape, offset, isPanning, panStart,
                   isSpacePressed, editVars, gestureVars, linkVars, pending, clock,
                   crashed>>

\* onWheel of the canvas area
handleWheel(deltaY) ==
    /\ ~crashed
    /\ scale' = WheelScale(scale, deltaY)
    /\ Log("wheel", Null, FALSE, deltaY)
    /\ UNCHANGED <<histVars, isProcessing, tool, drawShape, offset, isPanning,
                   panStart, isSpacePressed, editVars, gestureVars, linkVars,
                   pending, clock, crashed>>

\* setScale(s => Math.max(0.5, s - 0.25))
zoomOut ==
    /\ ~crashed
    /\ scale' = Max(MinScale, scale - ZoomStep)
    /\ Log("zoomOut", Null, FALSE, Null)
    /\ UNCHANGED <<histVars, isProcessing, tool, drawShape, offset, isPanning,
                   panStart, isSpacePressed, editVars, gestureVars, linkVars,
                   pending, clock, crashed>>

\* setScale(s => Math.min(5, s + 0.25))
zoomIn ==
    /\ ~crashed
    /\ scale' = Min(MaxScale, scale + ZoomStep)
    /\ Log("zoomIn", Null, FALSE, Null)
    /\ UNCHANGED <<histVars, isProcessing, tool, drawShape, offset, isPanning,
                   panStart, isSpacePressed, editVars, gestureVars, linkVars,
                   pending, clock, crashed>>

\* keydown of Space: if (e.code === 'Space' && !editingId) setIsSpacePressed(true)
keyDownSpace ==
    /\ ~crashed
    /\ isSpacePressed' = (IF editingId = Null THEN TRUE ELSE isSpacePressed)
    /\ Log("keyDown", Null, FALSE, "Space")
    /\ UNCHANGED <<histVars, isProcessing, tool, drawShape, scale, offset, isPanning,
                   panStart, editVars, gestureVars, linkVars, pending, clock, crashed>>

\* keyup of Space
keyUpSpace ==
    /\ ~crashed
    /\ isSpacePressed' = FALSE
    /\ Log("keyUp", Null, FALSE, "Space")
    /\ UNCHANGED <<histVars, isProcessing, tool, drawShape, scale, offset, isPanning,
                   panStart, editVars, gestureVars, linkVars, pending, clock, crashed>>

(***************************************************************************)
(* Link mode                                                               *)
(***************************************************************************)
\* only a link in the requested direction counts as existing
LinkExistsSameDirection(conn, a, id) ==
    \E i \in 1..Len(conn) : conn[i][1] = a /\ conn[i][2] = id

\* connections.some(([s, e]) => (s === a && e === id) || (s === id && e === a))
LinkExists(conn, a, id) ==
    \E i \in 1..Len(conn) :
        \/ (conn[i][1] = a /\ conn[i][2] = id)
        \/ (conn[i][1] = id /\ conn[i][2] = a)

\* a second click on the active node leaves it active
ConnectResultKeepsActive(conn, active, id) ==
    IF active = Null \/ active = id THEN [connections |-> conn, activeTreeNode |-> id]
    ELSE [connections |-> IF ~LinkExists(conn, active, id)
                          THEN Append(conn, <<active, id>>) ELSE conn,
          activeTreeNode |-> id]

\* the active node stays where the first click put it
ConnectResultNoChaining(conn, active, id) ==
    IF active = Null THEN [connections |-> conn, activeTreeNode |-> id]
    ELSE IF active = id THEN [connections |-> conn, activeTreeNode |-> Null]
    ELSE [connections |-> IF ~LinkExists(conn, active, id)
                          THEN Append(conn, <<active, id>>) ELSE conn,
          activeTreeNode |-> active]

\* handleBubbleConnect in tree mode, as a function of the link state
ConnectResult(conn, active, id) ==
    IF active = Null THEN [connections |-> conn, activeTreeNode |-> id]
    ELSE IF active = id THEN [connections |-> conn, activeTreeNode |-> Null]
    ELSE [connections |-> IF ~LinkExists(conn, active, id)
                          THEN Append(conn, <<active, id>>) ELSE conn,
          activeTreeNode |-> id]


(***************************************************************************)
(* Coordinates                                                             *)
(***************************************************************************)
\* A pointer event: x, y is (clientX - rect.left) / rect.width (resp. top,
\* height) before clamping, cx, cy are clientX, clientY, handle and bubbleId
\* are the data-handle and data-bubble-id attributes of the target.
PointerEvent(x, y) ==
    [x |-> x, y |-> y, cx |-> 0, cy |-> 0, button |-> 0,
     handle |-> NoHandle, bubbleId |-> Null, inEditor |-> FALSE]

Clamp01(v) == Max(0, Min(RelDen, v))

getRelativeCoords(e) == [x |-> Clamp01(e.x), y |-> Clamp01(e.y)]

\* coords.x * 1000
ToBoxUnits(c) == (c * BoxScale) \div RelDen

\* b.box.xmin / 1000
FromBoxUnits(v) == (v * RelDen) \div BoxScale

\* coords.x >= bx && coords.x <= bx + bw && coords.y >= by && coords.y <= by + bh
HitTest(b, coords) ==
    LET bx == FromBoxUnits(b.box.xmin)
        by == FromBoxUnits(b.box.ymin)
        bw == FromBoxUnits(b.box.xmax - b.box.xmin)
        bh == FromBoxUnits(b.box.ymax - b.box.ymin)
    IN  /\ coords.x >= bx /\ coords.x <= bx + bw
        /\ coords.y >= by /\ coords.y <= by + bh

\* [...bubbles].reverse().find(hit): the index of the last bubble hit, or 0
ClickedIndex(bs, coords) ==
    LET hits == {i \in 1..Len(bs) : HitTest(bs[i], coords)}
    IN  IF hits = {} THEN 0 ELSE CHOOSE i \in hits : \A j \in hits : j <= i

(***************************************************************************)
(* Editing                                                                 *)
(***************************************************************************)
EditHasChanged(b) ==
    \/ b.text # editText
    \/ b.textColor # editTextColor
    \/ b.backgroundColor # editBgColor
    \/ b.fontFamily # editFontFamily

EditedBubble(b) ==
    [b EXCEPT !.text = editText, !.textColor = editTextColor,
              !.backgroundColor = editBgColor, !.fontFamily = editFontFamily]

\* saveEdit commits when the edited bubble exists and a field differs
SaveEditCommits ==
    /\ editingId # Null
    /\ editingId \in Ids(bubbles)
    /\ EditHasChanged(FindBubble(bubbles, editingId))

\* the effect of saveEdit on the history and the bubbles
SaveEditHistory ==
    IF SaveEditCommits
    THEN /\ CanCommit
         /\ addToHistory(historyIndex,
                [i \in 1..Len(bubbles) |->
                    IF bubbles[i].id = editingId THEN EditedBubble(bubbles[i])
                    ELSE bubbles[i]])
    ELSE UNCHANGED histVars

(***************************************************************************)
(* Pointer down                                                            *)
(***************************************************************************)
\* Resize handles of a bubble are rendered when
\* tool === 'select' && !isEditing && !draggingId.
HandlesRendered(id) ==
    tool = "select" /\ editingId # id /\ draggingId = Null /\ id \in Ids(bubbles)

handleMouseDown(e) ==
    /\ ~crashed
    /\ e.handle # NoHandle => HandlesRendered(e.bubbleId)
    /\ IF tool = "pan" \/ e.button = 1 \/ (e.button = 0 /\ isSpacePressed)
       THEN /\ isPanning' = TRUE
            /\ panStart' = [x |-> e.cx - offset.x, y |-> e.cy - offset.y]
            /\ Log("panStart", Null, FALSE, e)
            /\ UNCHANGED <<histVars, isProcessing, tool, drawShape, scale, offset,
                           isSpacePressed, editVars, gestureVars, linkVars,
                           pending, clock, crashed>>
       ELSE IF editingId # Null /\ e.inEditor
       THEN /\ Log("mouseDown", Null, FALSE, e)
            /\ UNCHANGED <<histVars, isProcessing, tool, drawShape, viewVars, editVars,
                           gestureVars, linkVars, pending, clock, crashed>>
       ELSE
         LET coords == getRelativeCoords(e)
             hit == ClickedIndex(bubbles, coords)
         IN
         /\ SaveEditHistory
         /\ editingId' = Null
         /\ Log(IF tool = "select" /\ e.handle # NoHandle /\ e.bubbleId # Null
                THEN "resizeStart"
                ELSE IF tool = "tree" THEN "linkClick" ELSE "mouseDown",
                IF tool = "select" /\ e.handle # NoHandle /\ e.bubbleId # Null
                THEN e.bubbleId
                ELSE IF (tool = "select" \/ tool = "tree") /\ hit # 0
                THEN bubbles[hit].id ELSE Null,
                SaveEditCommits, e)
         /\ UNCHANGED <<isProcessing, tool, drawShape, viewVars, editText,
                        editTextColor, editBgColor, editFontFamily, pending, clock,
                        crashed>>
         /\ IF tool = "select" /\ e.handle # NoHandle /\ e.bubbleId # Null
            THEN /\ resizingId' = e.bubbleId
                 /\ resizeHandle' = e.handle
                 /\ isDragging' = FALSE
                 /\ UNCHANGED <<drawSelection, draggingId, dragOffset, linkVars>>
            ELSE IF (tool = "select" \/ tool = "tree") /\ hit # 0
            THEN IF tool = "tree"
                 THEN LET r == ConnectResult(connections, activeTreeNode, bubbles[hit].id) IN
                      /\ connections' = r.connections
                      /\ activeTreeNode' = r.activeTreeNode
                      /\ UNCHANGED gestureVars
                 ELSE /\ draggingId' = bubbles[hit].id
                      /\ dragOffset' = <<[x |-> coords.x - FromBoxUnits(bubbles[hit].box.xmin),
                                          y |-> coords.y - FromBoxUnits(bubbles[hit].box.ymin)]>>
                      /\ isDragging' = FALSE
                      /\ UNCHANGED <<drawSelection, resizingId, resizeHandle, linkVars>>
            ELSE /\ activeTreeNode' = (IF tool = "tree" THEN Null ELSE activeTreeNode)
                 /\ drawSelection' = (IF tool = "draw"
                                      THEN <<[start |-> coords, current |-> coords]>>
                                      ELSE drawSelection)
                 /\ UNCHANGED <<connections, draggingId, resizingId, resizeHandle,
                                dragOffset, isDragging>>

(***************************************************************************)
(* Pointer move                                                            *)
(***************************************************************************)
\* a resize whose moving edges follow the pointer without a minimum size
ResizedBoxUnclamped(box, handle, coords) ==
    LET currentX == ToBoxUnits(coords.x)
        currentY == ToBoxUnits(coords.y)
    IN  IF handle = "nw" THEN [box EXCEPT !.xmin = currentX, !.ymin = currentY]
        ELSE IF handle = "ne" THEN [box EXCEPT !.xmax = currentX, !.ymin = currentY]
        ELSE IF handle = "sw" THEN [box EXCEPT !.xmin = currentX, !.ymax = currentY]
        ELSE IF handle = "se" THEN [box EXCEPT !.xmax = currentX, !.ymax = currentY]
        ELSE box

\* the box of the bubble being resized, for the pointer at coords
ResizedBox(box, handle, coords) ==
    LET currentX == ToBoxUnits(coords.x)
        currentY == ToBoxUnits(coords.y)
    IN  IF handle = "nw"
        THEN [box EXCEPT !.xmin = Min(currentX, box.xmax - MinBoxSize),
                         !.ymin = Min(currentY, box.ymax - MinBoxSize)]
        ELSE IF handle = "ne"
        THEN [box EXCEPT !.xmax = Max(currentX, box.xmin + MinBoxSize),
                         !.ymin = Min(currentY, box.ymax - MinBoxSize)]
        ELSE IF handle = "sw"
        THEN [box EXCEPT !.xmin = Min(currentX, box.xmax - MinBoxSize),
                         !.ymax = Max(currentY, box.ymin + MinBoxSize)]
        ELSE IF handle = "se"
        THEN [box EXCEPT !.xmax = Max(currentX, box.xmin + MinBoxSize),
                         !.ymax = Max(currentY, box.ymin + MinBoxSize)]
        ELSE box

\* a drag that moves the top left corner and leaves the bottom right one
DraggedBoxKeepingCorner(box, off, coords) ==
    [box EXCEPT !.xmin = ToBoxUnits(coords.x - off.x),
                !.ymin = ToBoxUnits(coords.y - off.y)]

\* the box of the bubble being dragged, for the pointer at coords
DraggedBox(box, off, coords) ==
    LET width == box.xmax - box.xmin
        height == box.ymax - box.ymin
        newXmin == ToBoxUnits(coords.x - off.x)
        newYmin == ToBoxUnits(coords.y - off.y)
    IN  [xmin |-> newXmin, ymin |-> newYmin,
         xmax |-> newXmin + width, ymax |-> newYmin + height]

handleMouseMove(e) ==
    /\ ~crashed
    /\ Log("mouseMove", Null, FALSE, e)
    /\ IF isPanning
       THEN /\ offset' = [x |-> e.cx - panStart.x, y |-> e.cy - panStart.y]
            /\ UNCHANGED <<histVars, isProcessing, tool, drawShape, scale, isPanning,
                           panStart, isSpacePressed, editVars, gestureVars, linkVars,
                           pending, clock, crashed>>
       ELSE
         LET coords == getRelativeCoords(e) IN
         /\ UNCHANGED <<history, historyIndex, isProcessing, tool, drawShape, viewVars,
                        editVars, draggingId, resizingId, resizeHandle, dragOffset,
                        linkVars, pending, clock, crashed>>
         /\ IF resizingId # Null /\ resizeHandle # NoHandle
            THEN /\ bubbles' = [i \in 1..Len(bubbles) |->
                       IF bubbles[i].id # resizingId THEN bubbles[i]
                       ELSE [bubbles[i] EXCEPT
                                !.box = ResizedBox(bubbles[i].box, resizeHandle, coords)]]
                 /\ UNCHANGED <<drawSelection, isDragging>>
            ELSE IF draggingId # Null /\ dragOffset # Null
            THEN /\ isDragging' = TRUE
                 /\ bubbles' = [i \in 1..Len(bubbles) |->
                       IF bubbles[i].id # draggingId THEN bubbles[i]
                       ELSE [bubbles[i] EXCEPT
                                !.box = DraggedBox(bubbles[i].box, dragOffset[1], coords)]]
                 /\ UNCHANGED drawSelection
            ELSE /\ drawSelection' = (IF drawSelection # Null
                                      THEN <<[drawSelection[1] EXCEPT !.current = coords]>>
                                      ELSE drawSelection)
                 /\ UNCHANGED <<bubbles, isDragging>>

\* onMouseLeave={() => { setIsPanning(false); setDrawSelection(null); }}
handleMouseLeave ==
    /\ ~crashed
    /\ isPanning' = FALSE
    /\ drawSelection' = Null
    /\ Log("mouseLeave", Null, FALSE, Null)
    /\ UNCHANGED <<histVars, isProcessing, tool, drawShape, scale, offset, panStart,
                   isSpacePressed, editVars, draggingId, resizingId, resizeHandle,
                   dragOffset, isDragging, linkVars, pending, clock, crashed>>


(***************************************************************************)
(* Collaborators (geminiService.ts)                                        *)
(***************************************************************************)
\* JavaScript's v || d for an optional string
OrDefault(v, d) == IF v = Undefined \/ v = "" THEN d ELSE v

ErrorText == "Error"

\* translateRegion: raw.ok = FALSE stands for a rejected request or an
\* unparsable body (the catch block); otherwise raw holds the parsed fields.
translateRegion(raw) ==
    IF raw.ok
    THEN [text |-> OrDefault(raw.translated_text, ErrorText),
          textColor |-> OrDefault(raw.text_color, Black),
          backgroundColor |-> OrDefault(raw.background_color, White)]
    ELSE [text |-> ErrorText, textColor |-> Black, backgroundColor |-> White]

RegionOk(text, textColor, backgroundColor) ==
    [ok |-> TRUE, translated_text |-> text, text_color |-> textColor,
     background_color |-> backgroundColor]

RegionFailure ==
    [ok |-> FALSE, translated_text |-> Undefined, text_color |-> Undefined,
     background_color |-> Undefined]

\* autoDetectAndTranslate followed by the map of handleAutoScan that adds
\* shape, fontSizeScale and fontFamily; now is Date.now().
DetectedBubble(b, index, now) ==
    [id |-> <<"auto", index, now>>,
     text |-> b.translated_text,
     originalText |-> b.original_text,
     box |-> [ymin |-> b.box_2d[1], xmin |-> b.box_2d[2],
              ymax |-> b.box_2d[3], xmax |-> b.box_2d[4]],
     textColor |-> b.text_color,
     backgroundColor |-> b.background_color,
     isManual |-> FALSE,
     shape |-> "rectangle",
     fontSizeScale |-> DefaultFontScale,
     fontFamily |-> ComicNeue]

ProcessedBubbles(items, now) ==
    [i \in 1..Len(items) |-> DetectedBubble(items[i], i - 1, now)]

(***************************************************************************)
(* Outstanding continuations                                               *)
(***************************************************************************)
\* kind: which handler awaits; h0: the historyIndex its addToHistory captured;
\* bubbles: the bubbles it captured; temp: the tempBubble of a draw;
\* chains, updated: the loop state of handleRetranslateLinked.
Continuation(kind, temp, chains, updated) ==
    [kind |-> kind, h0 |-> historyIndex, bubbles |-> bubbles,
     temp |-> temp, chains |-> chains, updated |-> updated]

RemoveAt(s, i) == SubSeq(s, 1, i - 1) \o SubSeq(s, i + 1, Len(s))

(***************************************************************************)
(* Pointer up                                                              *)
(***************************************************************************)
TempBubble(id, newBox) ==
    [id |-> id,
     text |-> Placeholder,
     originalText |-> Undefined,
     box |-> newBox,
     isManual |-> TRUE,
     textColor |-> Black,
     backgroundColor |-> White,
     shape |-> drawShape,
     fontSizeScale |-> DefaultFontScale,
     fontFamily |-> ComicNeue]

\* the box from start to current, whatever the direction of the gesture
SelectionBoxFromStart(sel) ==
    [ymin |-> ToBoxUnits(sel.start.y),
     xmin |-> ToBoxUnits(sel.start.x),
     ymax |-> ToBoxUnits(sel.current.y),
     xmax |-> ToBoxUnits(sel.current.x)]

\* newBox of a draw selection
SelectionBox(sel) ==
    [ymin |-> ToBoxUnits(Min(sel.start.y, sel.current.y)),
     xmin |-> ToBoxUnits(Min(sel.start.x, sel.current.x)),
     ymax |-> ToBoxUnits(Max(sel.start.y, sel.current.y)),
     xmax |-> ToBoxUnits(Max(sel.start.x, sel.current.x))]

\* a threshold that no selection is below
NeverBelowThreshold(sel) == FALSE

\* (x2 - x1) < 0.01 || (y2 - y1) < 0.01
BelowThreshold(sel) ==
    LET x1 == Min(sel.start.x, sel.current.x)
        x2 == Max(sel.start.x, sel.current.x)
        y1 == Min(sel.start.y, sel.current.y)
        y2 == Max(sel.start.y, sel.current.y)
    IN  (x2 - x1) * 100 < RelDen \/ (y2 - y1) * 100 < RelDen

\* crop: what the canvas code before the await does: "request" (the region
\* request is sent), "throws" (drawImage or toDataURL throws: the catch block
\* runs), "noContext" (getContext returns null: nothing is sent).
handleMouseUp(crop) ==
    /\ ~crashed
    /\ IF isPanning
       THEN /\ isPanning' = FALSE
            /\ Log("panEnd", Null, FALSE, Null)
            /\ UNCHANGED <<histVars, isProcessing, tool, drawShape, scale, offset,
                           panStart, isSpacePressed, editVars, gestureVars, linkVars,
                           pending, clock, crashed>>
       ELSE IF resizingId # Null
       THEN /\ CanCommit
            /\ addToHistory(historyIndex, bubbles)
            /\ resizingId' = Null
            /\ resizeHandle' = NoHandle
            /\ Log("resizeEnd", resizingId, TRUE, Null)
            /\ UNCHANGED <<isProcessing, tool, drawShape, viewVars, editVars,
                           drawSelection, draggingId, dragOffset, isDragging,
                           linkVars, pending, clock, crashed>>
       ELSE IF draggingId # Null
       THEN /\ IF isDragging
               THEN CanCommit /\ addToHistory(historyIndex, bubbles)
               ELSE UNCHANGED histVars
            /\ draggingId' = Null
            /\ dragOffset' = Null
            /\ isDragging' = FALSE
            /\ Log("dragEnd", draggingId, isDragging, Null)
            /\ UNCHANGED <<isProcessing, tool, drawShape, viewVars, editVars,
                           drawSelection, resizingId, resizeHandle,
                           linkVars, pending, clock, crashed>>
       ELSE IF drawSelection = Null \/ BelowThreshold(drawSelection[1])
       THEN /\ drawSelection' = Null
            /\ Log("mouseUp", Null, FALSE, drawSelection)
            /\ UNCHANGED <<histVars, isProcessing, tool, drawShape, viewVars, editVars,
                           draggingId, resizingId, resizeHandle, dragOffset, isDragging,
                           linkVars, pending, clock, crashed>>
       ELSE
         LET tempId == <<"m", clock>>
             tempBubble == TempBubble(tempId, SelectionBox(drawSelection[1]))
         IN
         /\ Len(bubbles) < MaxBubbles
         /\ clock <= MaxClock
         /\ crop = "request" => CanStart
         /\ clock' = clock + 1
         /\ drawSelection' = Null
         /\ bubbles' = (IF crop = "throws"
                        THEN WithoutBubble(Append(bubbles, tempBubble), tempId)
                        ELSE Append(bubbles, tempBubble))
         /\ pending' = (IF crop = "request"
                        THEN Append(pending, Continuation("region", <<tempBubble>>, <<>>, <<>>))
                        ELSE pending)
         /\ Log("draw", tempId, FALSE, crop)
         /\ UNCHANGED <<history, historyIndex, isProcessing, tool, drawShape, viewVars,
                        editVars, draggingId, resizingId, resizeHandle, dragOffset,
                        isDragging, linkVars, crashed>>

\* The continuation of handleMouseUp after `await translateRegion(...)`:
\* setBubbles(prev => { updated = prev.map(...); addToHistory(updated); return updated })
\* { ...tempBubble, text: result.text, textColor: ..., backgroundColor: ... }
ResolvedBubble(tempBubble, raw) ==
    LET result == translateRegion(raw)
    IN  [tempBubble EXCEPT !.text = result.text,
                           !.textColor = result.textColor,
                           !.backgroundColor = result.backgroundColor]

\* prev.map(b => b.id === tempId ? resolvedBubble : b)
RegionUpdate(prev, tempBubble, raw) ==
    ReplaceBubble(prev, tempBubble.id, ResolvedBubble(tempBubble, raw))

regionResolved(i, raw) ==
    /\ ~crashed
    /\ i \in 1..Len(pending)
    /\ pending[i].kind = "region"
    /\ LET c == pending[i]
           tempBubble == c.temp[1]
           updated == RegionUpdate(bubbles, tempBubble, raw)
       IN  /\ CanCommit
           /\ addToHistory(c.h0, updated)
           /\ Log("regionResolved", tempBubble.id, TRUE, raw)
    /\ pending' = RemoveAt(pending, i)
    /\ UNCHANGED <<isProcessing, tool, drawShape, viewVars, editVars, gestureVars,
                   linkVars, clock, crashed>>

(***************************************************************************)
(* Full scan                                                               *)
(***************************************************************************)
\* The bubble overlay reads bubble.text.length of every bubble: a bubble
\* without text raises a TypeError during render, which unmounts the editor.
RenderThrows(bs) == \E k \in 1..Len(bs) : bs[k].text = Undefined

\* The Scan button is disabled while isProcessing.
handleAutoScan ==
    /\ ~crashed
    /\ ~isProcessing
    /\ CanStart
    /\ isProcessing' = TRUE
    /\ pending' = Append(pending, Continuation("scan", Null, <<>>, <<>>))
    /\ Log("scan", Null, FALSE, Null)
    /\ UNCHANGED <<histVars, tool, drawShape, viewVars, editVars, gestureVars,
                   linkVars, clock, crashed>>

\* a try block whose catch is never entered
ScanAlwaysSucceeded(raw) == TRUE

\* the statements after `await autoDetectAndTranslate(...)` run unless it
\* threw: the request failed, or an entry of result.bubbles has no box_2d
\* (Null here) and b.box_2d[0] raised a TypeError, which the service rethrows
ScanSucceeded(raw) ==
    /\ raw.ok
    /\ \A k \in 1..Len(raw.items) : raw.items[k].box_2d # Null

\* a handler with setIsProcessing(false) as the last statement of the try
\* block instead of the finally block
scanResolvedBusyAfterFailure(i, raw) ==
    /\ ~crashed
    /\ i \in 1..Len(pending)
    /\ pending[i].kind = "scan"
    /\ pending' = RemoveAt(pending, i)
    /\ IF ScanSucceeded(raw)
       THEN /\ Log("scanResolved", Null, TRUE, raw)
            /\ CanCommit
            /\ raw.items # <<>> => Len(pending[i].bubbles) + Len(raw.items) <= MaxBubbles
            /\ clock <= MaxClock
            /\ addToHistory(pending[i].h0,
                            pending[i].bubbles \o ProcessedBubbles(raw.items, clock))
            /\ tool' = "select"
            /\ clock' = clock + 1
            /\ crashed' = RenderThrows(bubbles')
            /\ isProcessing' = FALSE
       ELSE /\ LogAlert("scanResolved", Null, FALSE, raw, ScanFailedAlert)
            /\ UNCHANGED <<histVars, tool, clock, crashed, isProcessing>>
    /\ UNCHANGED <<drawShape, viewVars, editVars, gestureVars, linkVars>>

\* raw.ok = FALSE: autoDetectAndTranslate throws (alert, no commit);
\* otherwise raw.items is result.bubbles ([] when absent).
scanResolved(i, raw) ==
    /\ ~crashed
    /\ i \in 1..Len(pending)
    /\ pending[i].kind = "scan"
    /\ pending' = RemoveAt(pending, i)
    /\ isProcessing' = FALSE
    /\ IF ScanSucceeded(raw)
       THEN /\ Log("scanResolved", Null, TRUE, raw)
            /\ CanCommit
            /\ raw.items # <<>> => Len(pending[i].bubbles) + Len(raw.items) <= MaxBubbles
            /\ clock <= MaxClock
            /\ addToHistory(pending[i].h0,
                            pending[i].bubbles \o ProcessedBubbles(raw.items, clock))
            /\ tool' = "select"
            /\ clock' = clock + 1
            /\ crashed' = RenderThrows(bubbles')
       ELSE /\ LogAlert("scanResolved", Null, FALSE, raw, ScanFailedAlert)
            /\ UNCHANGED <<histVars, tool, clock, crashed>>
    /\ UNCHANGED <<drawShape, viewVars, editVars, gestureVars, linkVars>>


(***************************************************************************)
(* Chain decomposition (handleRetranslateLinked, step 1)                   *)
(***************************************************************************)
RECURSIVE Endpoints(_)
\* s1, e1, s2, e2, ... : the order in which nodes.add sees the endpoints
Endpoints(conn) ==
    IF conn = <<>> THEN <<>>
    ELSE <<Head(conn)[1], Head(conn)[2]>> \o Endpoints(Tail(conn))

RECURSIVE Distinct(_, _)
\* insertion order of a Set fed the elements of s
Distinct(s, seen) ==
    IF s = <<>> THEN <<>>
    ELSE IF Head(s) \in seen THEN Distinct(Tail(s), seen)
    ELSE <<Head(s)>> \o Distinct(Tail(s), seen \cup {Head(s)})

\* Array.from(nodes)
NodeOrder(conn) == Distinct(Endpoints(conn), {})

RECURSIVE Adj(_, _)
\* adj[n]: the targets of the links leaving n, in link order
Adj(conn, n) ==
    IF conn = <<>> THEN <<>>
    ELSE IF Head(conn)[1] = n THEN <<Head(conn)[2]>> \o Adj(Tail(conn), n)
    ELSE Adj(Tail(conn), n)

InDegree(conn, n) == Cardinality({i \in 1..Len(conn) : conn[i][2] = n})

\* every node taken as the start of a chain
StartsAtEveryNode(conn) == NodeOrder(conn)

\* Array.from(nodes).filter(n => inDegree[n] === 0)
Starts(conn) ==
    LET order == NodeOrder(conn)
    IN  SeqFilter(order, {n \in SeqToSet(order) : InDegree(conn, n) = 0})

\* adj[curr][0] whether visited or not
FirstTarget(targets, visited) ==
    IF targets = <<>> THEN Null ELSE <<targets[1]>>

\* adj[curr].find(n => !visited.has(n)): <<next>>, or Null when there is none
FirstUnvisited(targets, visited) ==
    LET free == {i \in 1..Len(targets) : targets[i] \notin visited}
    IN  IF free = {} THEN Null
        ELSE <<targets[CHOOSE i \in free : \A j \in free : i <= j]>>

RECURSIVE ChainLoop(_, _, _, _)
\* the while loop of getChain; returns the path and the visited set
ChainLoop(conn, visited, path, curr) ==
    LET next == FirstUnvisited(Adj(conn, curr), visited)
    IN  IF next = Null THEN [path |-> path, visited |-> visited]
        ELSE ChainLoop(conn, visited \cup {next[1]}, Append(path, next[1]), next[1])

getChain(conn, visited, startNode) ==
    ChainLoop(conn, visited \cup {startNode}, <<startNode>>, startNode)

RECURSIVE WalkFrom(_, _, _, _)
\* forEach over order: if (!visited.has(n)) chains.push(getChain(n))
WalkFrom(conn, order, visited, chains) ==
    IF order = <<>> THEN chains
    ELSE IF Head(order) \in visited THEN WalkFrom(conn, Tail(order), visited, chains)
    ELSE LET r == getChain(conn, visited, Head(order))
         IN  WalkFrom(conn, Tail(order), r.visited, Append(chains, r.path))

\* starts.forEach(...) and then nodes.forEach(...)
Chains(conn) == WalkFrom(conn, Starts(conn) \o NodeOrder(conn), {}, <<>>)

\* for (const chainIds of chains) { if (chainIds.length < 2) continue; ... }
SubmittedChains(conn) ==
    LET cs == Chains(conn)
    IN  SeqFilter(cs, {c \in SeqToSet(cs) : Len(c) >= 2})

(***************************************************************************)
(* Batch retranslation (handleRetranslateLinked, step 2)                   *)
(***************************************************************************)
RetranslatedText == "Refined"

RECURSIVE ChainData(_, _)
\* chainIds.map(id => bubbles.find(...) ? {id, text, originalText} : null).filter(b => b !== null)
ChainData(chainIds, bs) ==
    IF chainIds = <<>> THEN <<>>
    ELSE IF Head(chainIds) \in Ids(bs)
         THEN LET b == FindBubble(bs, Head(chainIds))
              IN  <<[id |-> b.id, text |-> b.text, originalText |-> b.originalText]>>
                  \o ChainData(Tail(chainIds), bs)
         ELSE ChainData(Tail(chainIds), bs)

\* a service that answers a failed request like an answered one
retranslateIgnoringFailure(chainData, raw) ==
    [i \in 1..Len(chainData) |-> [id |-> chainData[i].id, text |-> RetranslatedText]]

\* retranslateContextAware: [] for an empty list, a failed request or a body
\* without translations; raw.mode says which entries the service answers
\* ("untranslated": every entry, each without translated_text).
retranslateContextAware(chainData, raw) ==
    IF chainData = <<>> \/ ~raw.ok THEN <<>>
    ELSE IF raw.mode = "all"
         THEN [i \in 1..Len(chainData) |-> [id |-> chainData[i].id, text |-> RetranslatedText]]
    ELSE IF raw.mode = "untranslated"
         THEN [i \in 1..Len(chainData) |-> [id |-> chainData[i].id, text |-> Undefined]]
    ELSE IF raw.mode = "first"
         THEN <<[id |-> chainData[1].id, text |-> RetranslatedText]>>
    ELSE <<>>

RECURSIVE ApplyTranslations(_, _)
\* newTranslations.forEach(t => { idx = updatedBubbles.findIndex(...); if (idx !== -1) ... })
ApplyTranslations(updated, ts) ==
    IF ts = <<>> THEN updated
    ELSE ApplyTranslations(
            [i \in 1..Len(updated) |->
                IF updated[i].id = Head(ts).id
                   /\ \A j \in 1..(i - 1) : updated[j].id # Head(ts).id
                THEN [updated[i] EXCEPT !.text = Head(ts).text]
                ELSE updated[i]],
            Tail(ts))

\* The Retranslate button is rendered when tool === 'tree' && connections.length > 0;
\* it is not disabled while isProcessing.
handleRetranslateLinked ==
    /\ ~crashed
    /\ tool = "tree"
    /\ connections # <<>>
    /\ LET todo == SubmittedChains(connections) IN
       IF todo = <<>>
       THEN /\ LogAlert("retranslate", Null, TRUE, Null, RetranslatedAlert)
            /\ CanCommit
            /\ addToHistory(historyIndex, bubbles)
            /\ isProcessing' = FALSE
            /\ UNCHANGED pending
       ELSE /\ Log("retranslate", Null, FALSE, Null)
            /\ CanStart
            /\ isProcessing' = TRUE
            /\ pending' = Append(pending, Continuation("retranslate", Null, todo, bubbles))
            /\ UNCHANGED histVars
    /\ UNCHANGED <<tool, drawShape, viewVars, editVars, gestureVars, linkVars,
                   clock, crashed>>

\* The continuation after `await retranslateContextAware(chainData, ...)` for
\* the first chain still to do; after the last chain it commits.
retranslateResolved(i, raw) ==
    /\ ~crashed
    /\ i \in 1..Len(pending)
    /\ pending[i].kind = "retranslate"
    /\ LET c == pending[i]
           chainData == ChainData(Head(c.chains), c.bubbles)
           updatedBubbles == ApplyTranslations(c.updated,
                                 retranslateContextAware(chainData, raw))
       IN  IF Tail(c.chains) = <<>>
           THEN /\ LogAlert("retranslateResolved", Null, TRUE, raw, RetranslatedAlert)
                /\ CanCommit
                /\ addToHistory(c.h0, updatedBubbles)
                /\ isProcessing' = FALSE
                /\ pending' = RemoveAt(pending, i)
                /\ crashed' = RenderThrows(bubbles')
           ELSE /\ Log("retranslateResolved", Null, FALSE, raw)
                /\ pending' = [pending EXCEPT ![i] =
                                  [c EXCEPT !.chains = Tail(c.chains),
                                            !.updated = updatedBubbles]]
                /\ UNCHANGED <<histVars, isProcessing, crashed>>
    /\ UNCHANGED <<tool, drawShape, viewVars, editVars, gestureVars, linkVars,
                   clock>>



(***************************************************************************)
(* Bubble properties (the toolbar of the bubble being edited)              *)
(***************************************************************************)
MinFontScale == 5        \* 0.5, in tenths
MaxFontScale == 30       \* 3, in tenths
FontScaleStep == 1       \* the buttons pass -0.1 and 0.1

MaxStyleHistory == 8     \* font scale commits are enabled while history.length < MaxStyleHistory

\* onDoubleClick of a bubble: if (tool === 'select') startEditing(bubble)
startEditing(id) ==
    /\ ~crashed
    /\ tool = "select"
    /\ id \in Ids(bubbles)
    /\ LET b == FindBubble(bubbles, id) IN
       /\ editingId' = id
       /\ editText' = b.text
       /\ editTextColor' = OrDefault(b.textColor, Black)
       /\ editBgColor' = OrDefault(b.backgroundColor, White)
       /\ editFontFamily' = OrDefault(b.fontFamily, ComicNeue)
    /\ Log("startEditing", id, FALSE, Null)
    /\ UNCHANGED <<histVars, isProcessing, tool, drawShape, viewVars, gestureVars,
                   linkVars, pending, clock, crashed>>

\* b.fontSizeScale || 1
FontScaleOf(b) == IF b.fontSizeScale = 0 THEN DefaultFontScale ELSE b.fontSizeScale

\* the scale plus delta, without the limits
NewFontScaleUnclamped(b, delta) == FontScaleOf(b) + delta

\* Math.max(0.5, Math.min(3, (b.fontSizeScale || 1) + delta))
NewFontScale(b, delta) == Max(MinFontScale, Min(MaxFontScale, FontScaleOf(b) + delta))

\* The font size buttons are in the toolbar of the bubble being edited.
updateBubbleFontScale(id, delta) ==
    /\ ~crashed
    /\ editingId = id
    /\ id \in Ids(bubbles)
    /\ Len(history) < MaxStyleHistory
    /\ addToHistory(historyIndex,
           [i \in 1..Len(bubbles) |->
               IF bubbles[i].id = id
               THEN [bubbles[i] EXCEPT !.fontSizeScale = NewFontScale(bubbles[i], delta)]
               ELSE bubbles[i]])
    /\ Log("fontScale", id, TRUE, delta)
    /\ UNCHANGED <<isProcessing, tool, drawShape, viewVars, editVars, gestureVars,
                   linkVars, pending, clock, crashed>>

\* The shape button of the same toolbar passes the other shape.
updateBubbleShape(id, shape) ==
    /\ ~crashed
    /\ editingId = id
    /\ id \in Ids(bubbles)
    /\ CanCommit
    /\ addToHistory(historyIndex,
           [i \in 1..Len(bubbles) |->
               IF bubbles[i].id = id THEN [bubbles[i] EXCEPT !.shape = shape]
               ELSE bubbles[i]])
    /\ Log("shape", id, TRUE, shape)
    /\ UNCHANGED <<isProcessing, tool, drawShape, viewVars, editVars, gestureVars,
                   linkVars, pending, clock, crashed>>

(***************************************************************************)
(* Text layout: the bubble overlay and handleDownload                      *)
(***************************************************************************)
RECURSIVE IsqrtBetween(_, _, _)
\* the largest r in lo..hi with r * r <= n
IsqrtBetween(n, lo, hi) ==
    IF lo >= hi THEN lo
    ELSE LET mid == (lo + hi + 1) \div 2
         IN  IF mid * mid <= n THEN IsqrtBetween(n, mid, hi)
             ELSE IsqrtBetween(n, lo, mid - 1)

\* Numbers are fixed point: font sizes in tenths of a unit, rounded down.
MinFontUnits == 100      \* 10
MaxFontUnits == 500      \* 50

\* calculateBaseFontSize: Math.min(Math.max(Math.sqrt(area / (textLength || 1)) * 0.6, 10), 50)
\* with 0.6 * sqrt(x) taken as sqrt(36 x) / 10
calculateBaseFontSize(textLength, boxWidth, boxHeight) ==
    LET area == boxWidth * boxHeight
        n == IF textLength = 0 THEN 1 ELSE textLength
        charArea36 == IF area <= 0 THEN 0 ELSE (36 * area) \div n
        size == IsqrtBetween(charArea36, 0, 6000)
    IN  Min(Max(size, MinFontUnits), MaxFontUnits)

\* the live renderer takes the natural width of the image as if it were 1000
ScaleFactorOfNoImage(img) == 1000

\* imgRef.current ? imgRef.current.naturalWidth / 1000 : 1, in thousandths
LiveScaleFactor(img) == IF img = Null THEN 1000 ELSE img[1].naturalWidth

\* The style of a bubble in the overlay: font size in px (times 100000) and
\* CSS padding in percent of the width of the bubble, per side.
LiveStyle(b, img) ==
    LET normalizedW == b.box.xmax - b.box.xmin
        normalizedH == b.box.ymax - b.box.ymin
        baseFontSizeUnits == calculateBaseFontSize(Len(b.text), normalizedW, normalizedH)
    IN  [fontSize |-> baseFontSizeUnits * LiveScaleFactor(img) * FontScaleOf(b),
         padding |-> IF b.shape = "ellipse" THEN 12 ELSE 4]

\* The style handleDownload uses for the same bubble: scaledFontSize, and
\* paddingPercent (paddingX is w * paddingPercent * 2, for both sides).
ExportStyle(b, img) ==
    LET normalizedW == b.box.xmax - b.box.xmin
        normalizedH == b.box.ymax - b.box.ymin
        baseFontSizeUnits == calculateBaseFontSize(Len(b.text), normalizedW, normalizedH)
        scaleFactor == img.naturalWidth
    IN  [fontSize |-> baseFontSizeUnits * scaleFactor * FontScaleOf(b),
         padding |-> IF b.shape = "ellipse" THEN 12 ELSE 4]

\* Word wrap of handleDownload.  Where the text is wrapped it is a sequence
\* of one-character strings, and so are the words and the lines.
Space == " "

RECURSIVE Split(_)
\* b.text.split(' '): one word for a text without space, the empty text included
Split(text) ==
    IF \A i \in 1..Len(text) : text[i] # Space THEN <<text>>
    ELSE LET i == CHOOSE j \in 1..Len(text) :
                      text[j] = Space /\ \A k \in 1..(j - 1) : text[k] # Space
         IN  <<SubSeq(text, 1, i - 1)>> \o Split(SubSeq(text, i + 1, Len(text)))

\* the advance of a glyph, in tenths of the font size
GlyphAdvance(c) == IF c = Space THEN 3 ELSE 6

RECURSIVE TextAdvance(_)
TextAdvance(line) ==
    IF line = <<>> THEN 0 ELSE GlyphAdvance(Head(line)) + TextAdvance(Tail(line))

\* ctx.measureText(testLine).width in px times 10000, for the font size in
\* px times 100000
measureText(line, scaledFontSize) == TextAdvance(line) * (scaledFontSize \div 100)

\* maxWidth = Math.max(w - paddingX, 10), in px times 10000
MaxLineWidth(b, img) ==
    LET normalizedW == b.box.xmax - b.box.xmin
        paddingPercent == IF b.shape = "ellipse" THEN 12 ELSE 4
    IN  Max((normalizedW * img.naturalWidth * (100 - 2 * paddingPercent)) \div 10,
            10 * 10000)

RECURSIVE WrapLoopWithoutFlush(_, _, _, _, _, _)
\* a loop that forgets the line it is building when the words run out
WrapLoopWithoutFlush(words, n, line, lines, scaledFontSize, maxWidth) ==
    IF n > Len(words) THEN lines
    ELSE LET testLine == line \o words[n] \o <<Space>>
         IN  IF measureText(testLine, scaledFontSize) > maxWidth /\ n > 1
             THEN WrapLoopWithoutFlush(words, n + 1, words[n] \o <<Space>>,
                                       Append(lines, line), scaledFontSize, maxWidth)
             ELSE WrapLoopWithoutFlush(words, n + 1, testLine, lines,
                                       scaledFontSize, maxWidth)

RECURSIVE WrapLoop(_, _, _, _, _, _)
\* for (let n = 0; n < words.length; n++) { ... } lines.push(line); n counts from 1
WrapLoop(words, n, line, lines, scaledFontSize, maxWidth) ==
    IF n > Len(words) THEN Append(lines, line)
    ELSE LET testLine == line \o words[n] \o <<Space>>
         IN  IF measureText(testLine, scaledFontSize) > maxWidth /\ n > 1
             THEN WrapLoop(words, n + 1, words[n] \o <<Space>>, Append(lines, line),
                           scaledFontSize, maxWidth)
             ELSE WrapLoop(words, n + 1, testLine, lines, scaledFontSize, maxWidth)

\* what handleDownload draws for bubble b: the style and the lines
ExportedBubble(b, img) ==
    LET style == ExportStyle(b, img)
    IN  [fontSize |-> style.fontSize,
         padding |-> style.padding,
         maxWidth |-> MaxLineWidth(b, img),
         lines |-> WrapLoop(Split(b.text), 1, <<>>, <<>>, style.fontSize,
                            MaxLineWidth(b, img))]

\* handleDownload with imgRef.current = img
handleDownload(img) ==
    /\ ~crashed
    /\ canvas' = <<[image |-> img,
                    items |-> [i \in 1..Len(bubbles) |-> ExportedBubble(bubbles[i], img)]]>>
    /\ ev' = [op |-> "download", arg |-> Null, commit |-> FALSE, input |-> img,
              idx |-> historyIndex, len |-> Len(history), n |-> Len(bubbles),
              links |-> Len(connections), active |-> activeTreeNode]
    /\ alert' = NoAlert
    /\ UNCHANGED <<histVars, isProcessing, tool, drawShape, viewVars, editVars,
                   gestureVars, linkVars, pending, clock, crashed, walk>>

(***************************************************************************)
(* The editor from construction: drawing, deleting, scanning, undo and     *)
(* redo, with their asynchronous completions.  The pointer is used with    *)
(* the draw tool.                                                          *)
(***************************************************************************)
Handles == {"nw", "ne", "sw", "se"}

HandleEvent(h, id) ==
    [PointerEvent(0, 0) EXCEPT !.handle = h, !.bubbleId = id]

\* Pointer positions: two opposite corners of the box (100,100)-(300,300).
CorePoints == {<<1000, 1000>>, <<3000, 3000>>}
CoreTools == {"select", "draw"}
CoreCrops == {"request", "throws"}
CoreRegionResponses == {RegionOk("Hello", Black, White), RegionFailure}
CoreScanResponses ==
    {[ok |-> FALSE, items |-> <<>>],
     [ok |-> TRUE,
      items |-> <<[translated_text |-> "Hi", original_text |-> "Konnichiwa",
                   box_2d |-> <<100, 100, 300, 300>>,
                   text_color |-> Black, background_color |-> White]>>]}

Next ==
    \/ tool = "draw" /\ \E p \in CorePoints : handleMouseDown(PointerEvent(p[1], p[2]))
    \/ tool = "draw" /\ \E p \in CorePoints : handleMouseMove(PointerEvent(p[1], p[2]))
    \/ tool = "draw" /\ \E crop \in CoreCrops : handleMouseUp(crop)
    \/ handleMouseLeave
    \/ handleUndo
    \/ handleRedo
    \/ \E id \in Ids(bubbles) : handleDeleteBubble(id)
    \/ \E t \in CoreTools : setTool(t)
    \/ handleAutoScan
    \/ \E i \in 1..Len(pending) : \E raw \in CoreScanResponses : scanResolved(i, raw)
    \/ \E i \in 1..Len(pending) : \E raw \in CoreRegionResponses : regionResolved(i, raw)

Spec == Init /\ [][Next]_vars


(***************************************************************************)
(* The chain decomposition run step by step on a given link list           *)
(***************************************************************************)
MaxLinks == 4        \* connections.length of the link lists decomposed
MaxIterations == 8   \* passes through the body of the while loop of getChain

BubbleA == <<"auto", 0, 1>>
BubbleB == <<"auto", 1, 1>>
BubbleC == <<"auto", 2, 1>>
BubbleD == <<"auto", 3, 1>>
BubbleE == <<"auto", 4, 1>>

\* The ids of a scan, in the order the scan numbers them; a link list of
\* MaxLinks links has at most 2 * MaxLinks nodes.
ChainNodeOrder == [i \in 1..(2 * MaxLinks) |-> <<"auto", i - 1, 1>>]

ChainNodes == SeqToSet(ChainNodeOrder)

\* The link lists the editor can hold: no link from a node to itself and at
\* most one link between two nodes.
WellFormedLinks(conn) ==
    \A i \in 1..Len(conn) :
        /\ conn[i][1] # conn[i][2]
        /\ \A j \in 1..Len(conn) :
              (i # j) => {conn[i][1], conn[i][2]} # {conn[j][1], conn[j][2]}

\* The decomposition compares ids for equality only, so one naming of the
\* nodes stands for all: the nodes are named in the order in which the link
\* list mentions them.
NamedInOrder(conn) ==
    NodeOrder(conn) = SubSeq(ChainNodeOrder, 1, Len(NodeOrder(conn)))

RECURSIVE LinkListsOfLength(_)
LinkListsOfLength(n) ==
    IF n = 0 THEN {<<>>}
    ELSE {l \in {Append(k, <<a, b>>) : k \in LinkListsOfLength(n - 1),
                                       a \in ChainNodes, b \in ChainNodes} :
             WellFormedLinks(l) /\ NamedInOrder(l)}

LinkLists == UNION {LinkListsOfLength(n) : n \in 1..MaxLinks}

\* the locals of handleRetranslateLinked when the first forEach starts
WalkBegin(conn) ==
    [pc |-> "starts", conn |-> conn, todo |-> Starts(conn), visited |-> {},
     chains |-> <<>>, path |-> <<>>, curr |-> Null, ret |-> "starts",
     iterations |-> 0]

InitChains == InitEditor /\ \E l \in LinkLists : walk = WalkBegin(l)

editorVars ==
    <<history, historyIndex, bubbles, isProcessing, tool, drawShape,
      scale, offset, isPanning, panStart, isSpacePressed,
      editingId, editText, editTextColor, editBgColor, editFontFamily,
      drawSelection, draggingId, resizingId, resizeHandle, dragOffset, isDragging,
      connections, activeTreeNode, pending, clock, crashed, alert, canvas, ev>>

\* one callback of starts.forEach (pc = "starts") or nodes.forEach
\* (pc = "leftovers"): skip a visited node, or enter getChain
walkForEach ==
    /\ walk.pc \in {"starts", "leftovers"}
    /\ walk' =
         IF walk.todo = <<>>
         THEN IF walk.pc = "starts"
              THEN [walk EXCEPT !.pc = "leftovers", !.todo = NodeOrder(walk.conn)]
              ELSE [walk EXCEPT !.pc = "done"]
         ELSE IF Head(walk.todo) \in walk.visited
         THEN [walk EXCEPT !.todo = Tail(walk.todo)]
         ELSE [walk EXCEPT !.todo = Tail(walk.todo),
                           !.pc = "chain",
                           !.ret = walk.pc,
                           !.path = <<Head(walk.todo)>>,
                           !.visited = walk.visited \cup {Head(walk.todo)},
                           !.curr = Head(walk.todo)]
    /\ UNCHANGED editorVars

\* one test of the while loop of getChain, with its body or its exit
walkChainLoop ==
    /\ walk.pc = "chain"
    /\ walk.iterations < MaxIterations
    /\ LET next == FirstUnvisited(Adj(walk.conn, walk.curr), walk.visited)
       IN  walk' =
             IF next = Null
             THEN [walk EXCEPT !.pc = walk.ret,
                               !.chains = Append(walk.chains, walk.path)]
             ELSE [walk EXCEPT !.visited = walk.visited \cup {next[1]},
                               !.path = Append(walk.path, next[1]),
                               !.curr = next[1],
                               !.iterations = walk.iterations + 1]
    /\ UNCHANGED editorVars

NextChains == walkForEach \/ walkChainLoop

SpecChains == InitChains /\ [][NextChains]_vars

\* The event loop runs a started handler to its end.
SpecChainsFair == SpecChains /\ WF_vars(NextChains)

(***************************************************************************)
(* Linking the bubbles of a scanned page                                   *)
(***************************************************************************)
DetectedItem(original, translated, box) ==
    [original_text |-> original, translated_text |-> translated, box_2d |-> box,
     text_color |-> Black, background_color |-> White]

\* a page with three bubbles side by side; box_2d is [ymin, xmin, ymax, xmax]
LinkScanResponses ==
    {[ok |-> TRUE,
      items |-> <<DetectedItem("ichi", "one", <<100, 100, 300, 300>>),
                  DetectedItem("ni", "two", <<100, 400, 300, 600>>),
                  DetectedItem("san", "three", <<100, 700, 300, 900>>)>>]}

\* inside the first, the second and the third bubble, and on the bare page
LinkPoints == {<<2000, 2000>>, <<5000, 2000>>, <<8000, 2000>>, <<2000, 6000>>}

LinkTools == {"select", "tree"}

NextLink ==
    \/ handleAutoScan
    \/ \E i \in 1..Len(pending) : \E raw \in LinkScanResponses : scanResolved(i, raw)
    \/ \E t \in LinkTools : setTool(t)
    \/ tool = "tree" /\ \E p \in LinkPoints : handleMouseDown(PointerEvent(p[1], p[2]))
    \/ tool = "tree" /\ handleMouseUp("request")
    \/ \E id \in Ids(bubbles) : handleDeleteBubble(id)

SpecLink == Init /\ [][NextLink]_vars

\* The editor after handleAutoScan committed page.
InitScanned(page) ==
    /\ history = << <<>>, page >>
    /\ historyIndex = 1
    /\ bubbles = page
    /\ isProcessing = FALSE
    /\ tool = "select"
    /\ drawShape = "rectangle"
    /\ scale = 100
    /\ offset = [x |-> 0, y |-> 0]
    /\ isPanning = FALSE
    /\ panStart = [x |-> 0, y |-> 0]
    /\ isSpacePressed = FALSE
    /\ editingId = Null
    /\ editText = ""
    /\ editTextColor = Black
    /\ editBgColor = White
    /\ editFontFamily = ComicNeue
    /\ drawSelection = Null
    /\ draggingId = Null
    /\ resizingId = Null
    /\ resizeHandle = NoHandle
    /\ dragOffset = Null
    /\ isDragging = FALSE
    /\ connections = <<>>
    /\ activeTreeNode = Null
    /\ pending = <<>>
    /\ clock = 2
    /\ crashed = FALSE
    /\ alert = NoAlert
    /\ canvas = Null
    /\ ev = [op |-> "scanResolved", arg |-> Null, commit |-> TRUE, input |-> Null,
             idx |-> 0, len |-> 1, n |-> 0, links |-> 0, active |-> Null]
    /\ walk = WalkIdle

(***************************************************************************)
(* Linking the bubbles of a scanned page, with undo and redo               *)
(***************************************************************************)
\* the page of three bubbles side by side, as the scan committed it
LinkedPage ==
    ProcessedBubbles(<<DetectedItem("ichi", "one", <<100, 100, 300, 300>>),
                       DetectedItem("ni", "two", <<100, 400, 300, 600>>),
                       DetectedItem("san", "three", <<100, 700, 300, 900>>)>>, 1)

InitLinkUndo == InitScanned(LinkedPage)

\* the bubble the user deletes: the third of the page
LinkBatchDeleted == {BubbleC}

\* the service answers every bubble of the chain, or the request fails
LinkBatchResponses == {[ok |-> TRUE, mode |-> "all"], [ok |-> FALSE, mode |-> "all"]}

NextLinkUndo ==
    \/ \E t \in LinkTools : setTool(t)
    \/ tool = "tree" /\ \E p \in LinkPoints : handleMouseDown(PointerEvent(p[1], p[2]))
    \/ tool = "tree" /\ handleMouseUp("request")
    \/ handleUndo
    \/ handleRedo

SpecLinkUndo == InitLinkUndo /\ [][NextLinkUndo]_vars

\* the same page with the Delete button and the Retranslate button, pressed
\* when no pass is outstanding
NextLinkBatch ==
    \/ NextLinkUndo
    \/ \E id \in LinkBatchDeleted : handleDeleteBubble(id)
    \/ pending = <<>> /\ handleRetranslateLinked
    \/ \E i \in 1..Len(pending) : \E raw \in LinkBatchResponses : retranslateResolved(i, raw)

SpecLinkBatch == InitLinkUndo /\ [][NextLinkBatch]_vars

(***************************************************************************)
(* Dragging and resizing the bubble of a scanned page                      *)
(***************************************************************************)
\* The editor after handleAutoScan found one bubble on the page: the scan
\* committed it, selected the select tool and used up the first clock value.
ScannedPage ==
    ProcessedBubbles(<<DetectedItem("Konnichiwa", "Hi", <<100, 100, 300, 300>>)>>, 1)

InitGesture ==
    /\ history = << <<>>, ScannedPage >>
    /\ historyIndex = 1
    /\ bubbles = ScannedPage
    /\ isProcessing = FALSE
    /\ tool = "select"
    /\ drawShape = "rectangle"
    /\ scale = 100
    /\ offset = [x |-> 0, y |-> 0]
    /\ isPanning = FALSE
    /\ panStart = [x |-> 0, y |-> 0]
    /\ isSpacePressed = FALSE
    /\ editingId = Null
    /\ editText = ""
    /\ editTextColor = Black
    /\ editBgColor = White
    /\ editFontFamily = ComicNeue
    /\ drawSelection = Null
    /\ draggingId = Null
    /\ resizingId = Null
    /\ resizeHandle = NoHandle
    /\ dragOffset = Null
    /\ isDragging = FALSE
    /\ connections = <<>>
    /\ activeTreeNode = Null
    /\ pending = <<>>
    /\ clock = 2
    /\ crashed = FALSE
    /\ alert = NoAlert
    /\ canvas = Null
    /\ ev = [op |-> "scanResolved", arg |-> Null, commit |-> TRUE, input |-> Null,
             idx |-> 0, len |-> 1, n |-> 0, links |-> 0, active |-> Null]
    /\ walk = WalkIdle

\* Pointer positions: the top left corner of the content, a point of the
\* scanned box (100,100)-(300,300), a point right of and below it, and a
\* point beyond the right edge of the content (clamped by getRelativeCoords).
GesturePoints == {<<0, 0>>, <<2000, 2000>>, <<6000, 4000>>, <<12000, 5000>>}

\* The button is pressed again only after it was released.
NoGestureInProgress ==
    draggingId = Null /\ resizingId = Null /\ drawSelection = Null /\ ~isPanning

NextGesture ==
    \/ NoGestureInProgress /\
          \E p \in GesturePoints : handleMouseDown(PointerEvent(p[1], p[2]))
    \/ NoGestureInProgress /\
          \E h \in Handles : \E id \in Ids(bubbles) : handleMouseDown(HandleEvent(h, id))
    \/ \E p \in GesturePoints : handleMouseMove(PointerEvent(p[1], p[2]))
    \/ handleMouseUp("request")
    \/ handleUndo
    \/ handleRedo

SpecGesture == InitGesture /\ [][NextGesture]_vars

(***************************************************************************)
(* Drawing boxes on an empty page                                          *)
(***************************************************************************)
Red == "#FF0000"
Yellow == "#FFFF00"

\* Pointer positions: two opposite corners of a box and a point less than
\* 1% of the width right of the second one.
DrawPoints == {<<1000, 2000>>, <<4000, 6000>>, <<4050, 2500>>}

DrawRegionResponses == {RegionOk("Hola", Red, Yellow), RegionFailure}

NextDraw ==
    \/ toggleDrawShape
    \/ NoGestureInProgress /\
          \E p \in DrawPoints : handleMouseDown(PointerEvent(p[1], p[2]))
    \/ \E p \in DrawPoints : handleMouseMove(PointerEvent(p[1], p[2]))
    \/ \E crop \in {"request", "noContext"} : handleMouseUp(crop)
    \/ \E i \in 1..Len(pending) : \E raw \in DrawRegionResponses : regionResolved(i, raw)

SpecDraw == Init /\ [][NextDraw]_vars

(***************************************************************************)
(* Batch retranslation of the linked bubbles of a scanned page, with scans *)
(* started while a pass is outstanding                                     *)
(***************************************************************************)
\* a page with four bubbles, as committed by one scan
BatchPage ==
    ProcessedBubbles(<<DetectedItem("ichi", "one", <<100, 100, 300, 300>>),
                       DetectedItem("ni", "two", <<100, 400, 300, 600>>),
                       DetectedItem("san", "three", <<100, 700, 300, 900>>),
                       DetectedItem("yon", "four", <<500, 100, 700, 300>>)>>, 1)

\* two links out of the first bubble, the second branch going on to a fourth bubble
BranchingLinks == << <<BubbleA, BubbleB>>, <<BubbleA, BubbleC>>, <<BubbleC, BubbleD>> >>

\* link lists built with the tree tool: one chain, two chains of two, one
\* chain of three, two links into the same bubble, and two links out of the
\* same bubble
BatchLinks ==
    {<< <<BubbleA, BubbleB>> >>,
     << <<BubbleA, BubbleB>>, <<BubbleC, BubbleD>> >>,
     << <<BubbleA, BubbleB>>, <<BubbleB, BubbleC>> >>,
     << <<BubbleA, BubbleB>>, <<BubbleC, BubbleB>> >>,
     BranchingLinks}

\* The editor after the scan of BatchPage, with the tree tool selected, the
\* links made and the active node clicked once more to deselect it.
InitBatch ==
    /\ history = << <<>>, BatchPage >>
    /\ historyIndex = 1
    /\ bubbles = BatchPage
    /\ isProcessing = FALSE
    /\ tool = "tree"
    /\ drawShape = "rectangle"
    /\ scale = 100
    /\ offset = [x |-> 0, y |-> 0]
    /\ isPanning = FALSE
    /\ panStart = [x |-> 0, y |-> 0]
    /\ isSpacePressed = FALSE
    /\ editingId = Null
    /\ editText = ""
    /\ editTextColor = Black
    /\ editBgColor = White
    /\ editFontFamily = ComicNeue
    /\ drawSelection = Null
    /\ draggingId = Null
    /\ resizingId = Null
    /\ resizeHandle = NoHandle
    /\ dragOffset = Null
    /\ isDragging = FALSE
    /\ connections \in BatchLinks
    /\ activeTreeNode = Null
    /\ pending = <<>>
    /\ clock = 2
    /\ crashed = FALSE
    /\ alert = NoAlert
    /\ canvas = Null
    /\ ev = [op |-> "linkClick", arg |-> connections[Len(connections)][2],
             commit |-> FALSE, input |-> Null, idx |-> 1, len |-> 2, n |-> 4,
             links |-> Len(connections),
             active |-> <<connections[Len(connections)][2]>>]
    /\ walk = WalkIdle

\* the service answers every bubble of the chain, or the request fails
BatchResponses == {[ok |-> TRUE, mode |-> "all"], [ok |-> FALSE, mode |-> "all"]}

\* the scan request fails, or finds nothing on the page
BatchScanResponses == {[ok |-> FALSE, items |-> <<>>], [ok |-> TRUE, items |-> <<>>]}

\* a scan that succeeds selects the select tool: the user goes back to the tree tool
BatchTools == {"tree"}

NextBatch ==
    \/ handleRetranslateLinked
    \/ \E i \in 1..Len(pending) : \E raw \in BatchResponses : retranslateResolved(i, raw)
    \/ handleAutoScan
    \/ \E i \in 1..Len(pending) : \E raw \in BatchScanResponses : scanResolved(i, raw)
    \/ \E t \in BatchTools : setTool(t)

SpecBatch == InitBatch /\ [][NextBatch]_vars

\* the same with the Undo button, which stays enabled while requests are outstanding
NextBatchUndo ==
    \/ NextBatch
    \/ handleUndo

SpecBatchUndo == InitBatch /\ [][NextBatchUndo]_vars

\* Room in the bounded history for the commit of every request outstanding
\* and of one more.
StartRoom ==
    /\ Len(history) + Len(pending) < MaxHistory
    /\ historyIndex + Len(pending) < MaxHistory

\* the scan finds the three bubbles of the page, or its request fails
BusyScanResponses == LinkScanResponses \cup {[ok |-> FALSE, items |-> <<>>]}

\* inside the first and the second bubble of the page
BusyPoints == {<<2000, 2000>>, <<5000, 2000>>}

\* From the empty editor: scans, links made with the tree tool and passes,
\* the scans and passes started while the history has room for their commits.
NextBusy ==
    \/ StartRoom /\ handleAutoScan
    \/ \E i \in 1..Len(pending) : \E raw \in BusyScanResponses : scanResolved(i, raw)
    \/ \E t \in LinkTools : setTool(t)
    \/ tool = "tree" /\ \E p \in BusyPoints : handleMouseDown(PointerEvent(p[1], p[2]))
    \/ tool = "tree" /\ handleMouseUp("request")
    \/ StartRoom /\ handleRetranslateLinked
    \/ \E i \in 1..Len(pending) : \E raw \in BatchResponses : retranslateResolved(i, raw)

SpecBusy == Init /\ [][NextBusy]_vars

\* Every request returns: the continuation of an outstanding scan and the
\* continuation of an outstanding pass are eventually run.
SpecBusyFair ==
    /\ SpecBusy
    /\ WF_vars(\E i \in 1..Len(pending) : \E raw \in BusyScanResponses : scanResolved(i, raw))
    /\ WF_vars(\E i \in 1..Len(pending) : \E raw \in BatchResponses : retranslateResolved(i, raw))

(***************************************************************************)
(* Dragging and resizing one bubble of a page of three                     *)
(***************************************************************************)
\* inside the first bubble, inside the second, and on the bare page
MovePoints == {<<2000, 2000>>, <<5000, 2000>>, <<6000, 4000>>}

\* the corners grabbed
MoveHandles == {"nw", "se"}

NextMove ==
    \/ NoGestureInProgress /\
          \E p \in MovePoints : handleMouseDown(PointerEvent(p[1], p[2]))
    \/ NoGestureInProgress /\
          \E h \in MoveHandles : \E id \in Ids(bubbles) : handleMouseDown(HandleEvent(h, id))
    \/ \E p \in MovePoints : handleMouseMove(PointerEvent(p[1], p[2]))
    \/ handleMouseUp("request")

SpecMove == InitLinkUndo /\ [][NextMove]_vars

(***************************************************************************)
(* Switching tools between gestures on a scanned page                      *)
(***************************************************************************)
ModeTools == {"select", "draw", "tree"}

\* a point of the scanned box (100,100)-(300,300) and a point of the bare page
ModePoints == {<<2000, 2000>>, <<6000, 4000>>}

NextModes ==
    \/ \E t \in ModeTools : setTool(t)
    \/ NoGestureInProgress /\
          \E p \in ModePoints : handleMouseDown(PointerEvent(p[1], p[2]))
    \/ NoGestureInProgress /\
          \E h \in Handles : \E id \in Ids(bubbles) : handleMouseDown(HandleEvent(h, id))
    \/ \E p \in ModePoints : handleMouseMove(PointerEvent(p[1], p[2]))
    \/ handleMouseUp("request")
    \/ handleMouseLeave

SpecModes == InitGesture /\ [][NextModes]_vars

(***************************************************************************)
(* Panning and zooming between and during the gestures on a scanned page   *)
(***************************************************************************)
MaxPan == 50         \* a pan starts while offset.x is within MaxPan pixels of 0

\* inside the bubble and on the bare page, 50 pixels apart on the screen
ViewEvents ==
    {[PointerEvent(2000, 2000) EXCEPT !.cx = 100, !.button = button] : button \in {0, 1}}
    \cup {[PointerEvent(6000, 4000) EXCEPT !.cx = 150, !.button = button] : button \in {0, 1}}

ViewTools == {"select", "pan", "tree"}

\* deltaY of a wheel event in either direction: delta is 0.25
WheelDeltas == {-250, 250}

AbsPan(n) == IF n < 0 THEN -n ELSE n

MaxZoom == 25        \* a zoom starts while scale is within MaxZoom hundredths of 1
CanZoom == AbsPan(scale - 100) <= MaxZoom

NextView ==
    \/ \E t \in ViewTools : setTool(t)
    \/ keyDownSpace
    \/ keyUpSpace
    \/ CanZoom /\ \E deltaY \in WheelDeltas : handleWheel(deltaY)
    \/ CanZoom /\ zoomIn
    \/ CanZoom /\ zoomOut
    \/ NoGestureInProgress /\ AbsPan(offset.x) <= MaxPan /\
          \E e \in ViewEvents : e.button = 0 /\ handleMouseDown(e)
    \/ NoGestureInProgress /\ AbsPan(offset.x) <= MaxPan /\
          \E id \in Ids(bubbles) : handleMouseDown(HandleEvent("se", id))
    \/ ~isPanning /\ AbsPan(offset.x) <= MaxPan /\ \E e \in ViewEvents :
          e.button = 1 /\ handleMouseDown(e)
    \/ \E e \in ViewEvents : e.button = 0 /\ handleMouseMove(e)
    \/ handleMouseUp("request")

SpecView == InitGesture /\ [][NextView]_vars

(***************************************************************************)
(* Responses that lack a field                                             *)
(***************************************************************************)
CompleteItem == DetectedItem("Konnichiwa", "Hi", <<100, 100, 300, 300>>)

\* result.bubbles with one entry: complete, or without translated_text,
\* text_color, background_color or box_2d
MalformedScanResponses ==
    {[ok |-> TRUE, items |-> <<item>>] :
        item \in {CompleteItem,
                  [CompleteItem EXCEPT !.translated_text = Undefined],
                  [CompleteItem EXCEPT !.text_color = Undefined],
                  [CompleteItem EXCEPT !.background_color = Undefined],
                  [CompleteItem EXCEPT !.box_2d = Null]}}

MalformedRegionResponses ==
    {RegionOk("Hola", Red, Yellow), RegionOk(Undefined, Red, Yellow),
     RegionOk("Hola", Undefined, Yellow), RegionOk("Hola", Red, Undefined)}

MalformedBatchResponses ==
    {[ok |-> TRUE, mode |-> "all"], [ok |-> TRUE, mode |-> "untranslated"]}

\* the empty editor, or the page of four linked bubbles
InitMalformed == Init \/ InitBatch

NextMalformed ==
    \/ handleAutoScan
    \/ \E i \in 1..Len(pending) : \E raw \in MalformedScanResponses : scanResolved(i, raw)
    \/ \E t \in {"draw", "tree"} : setTool(t)
    \/ tool = "draw" /\ NoGestureInProgress /\
          \E p \in DrawPoints : handleMouseDown(PointerEvent(p[1], p[2]))
    \/ tool = "draw" /\ \E p \in DrawPoints : handleMouseMove(PointerEvent(p[1], p[2]))
    \/ tool = "draw" /\ handleMouseUp("request")
    \/ \E i \in 1..Len(pending) : \E raw \in MalformedRegionResponses : regionResolved(i, raw)
    \/ handleRetranslateLinked
    \/ \E i \in 1..Len(pending) : \E raw \in MalformedBatchResponses : retranslateResolved(i, raw)

SpecMalformed == InitMalformed /\ [][NextMalformed]_vars

(***************************************************************************)
(* Styling the bubbles of a scanned page and exporting it                  *)
(***************************************************************************)
\* The texts of the pages that are exported, character by character:
\* "Hi", "We must go  now" (with two spaces), "Oh no" and "".
TextHi == <<"H", "i">>
TextWeMustGoNow ==
    <<"W", "e", " ", "m", "u", "s", "t", " ", "g", "o", " ", " ", "n", "o", "w">>
TextOhNo == <<"O", "h", " ", "n", "o">>
TextEmpty == <<>>

\* pages of one bubble: a short text in a wide box, a sentence in a narrow
\* box, two words and an empty text in a box of 10 by 10
StylePages ==
    {ProcessedBubbles(<<DetectedItem("Konnichiwa", TextHi, <<100, 100, 300, 300>>)>>, 1),
     ProcessedBubbles(<<DetectedItem("", TextWeMustGoNow, <<100, 100, 300, 200>>)>>, 1),
     ProcessedBubbles(<<DetectedItem("", TextOhNo, <<500, 500, 510, 510>>)>>, 1),
     ProcessedBubbles(<<DetectedItem("", TextEmpty, <<500, 500, 510, 510>>)>>, 1)}

InitStyle == \E page \in StylePages : InitScanned(page)

\* imgRef.current: natural sizes below, at and above 1000 pixels of width
StyleImages ==
    {[naturalWidth |-> 800, naturalHeight |-> 1200],
     [naturalWidth |-> 1000, naturalHeight |-> 1500],
     [naturalWidth |-> 2000, naturalHeight |-> 3000]}

\* a second scan of the page finds one more bubble
StyleScanResponses ==
    {[ok |-> TRUE, items |-> <<DetectedItem("Sayonara", "Bye", <<600, 100, 800, 300>>)>>]}

\* two opposite corners of a box drawn below the scanned bubbles
StyleDrawPoints == {<<1000, 8500>>, <<4000, 9500>>}

StyleRegionResponses == {RegionOk("Hola", Red, Yellow)}

OtherShape(shape) == IF shape = "ellipse" THEN "rectangle" ELSE "ellipse"

\* the font size button pressed so far in the session is pressed again:
\* no snapshot of history has a font scale that moved against delta
SameButton(delta) ==
    \A k \in 1..(Len(history) - 1) :
        Len(history[k]) = Len(history[k + 1]) =>
            \A i \in 1..Len(history[k]) :
                history[k + 1][i].fontSizeScale - history[k][i].fontSizeScale
                    \in {0, delta}

NextStyle ==
    \/ editingId = Null /\ \E id \in Ids(bubbles) : startEditing(id)
    \/ \E delta \in {-FontScaleStep, FontScaleStep} :
          SameButton(delta) /\ updateBubbleFontScale(editingId, delta)
    \/ editingId \in Ids(bubbles) /\
          updateBubbleShape(editingId, OtherShape(FindBubble(bubbles, editingId).shape))
    \/ \E img \in StyleImages : handleDownload(img)

SpecStyle == InitStyle /\ [][NextStyle]_vars

(***************************************************************************)
(* The font size buttons between scans and manual draws                    *)
(***************************************************************************)
NextFontScale ==
    \/ editingId = Null /\ \E id \in Ids(bubbles) : startEditing(id)
    \/ \E delta \in {-FontScaleStep, FontScaleStep} :
          SameButton(delta) /\ updateBubbleFontScale(editingId, delta)
    \/ handleAutoScan
    \/ \E i \in 1..Len(pending) : \E raw \in StyleScanResponses : scanResolved(i, raw)
    \/ \E t \in {"select", "draw"} : setTool(t)
    \/ tool = "draw" /\ NoGestureInProgress /\ editingId = Null /\
          \E p \in StyleDrawPoints : handleMouseDown(PointerEvent(p[1], p[2]))
    \/ tool = "draw" /\ \E p \in StyleDrawPoints : handleMouseMove(PointerEvent(p[1], p[2]))
    \/ tool = "draw" /\ handleMouseUp("request")
    \/ \E i \in 1..Len(pending) : \E raw \in StyleRegionResponses : regionResolved(i, raw)

SpecFontScale == InitGesture /\ [][NextFontScale]_vars

(***************************************************************************)
(* Claims about the history                                                *)
(***************************************************************************)
\* C1: after any commit (a handler that called addToHistory), synchronous or
\* the completion of an async handler, redo is unavailable: historyIndex is
\* the last index of history, and history ends right after the pre-commit
\* index with the new snapshot.
CommitDiscardsRedo ==
    ev.commit => (historyIndex = Len(history) - 1 /\ Len(history) = ev.idx + 2)

\* C2: wherever undo is available (historyIndex > 0), undo immediately
\* followed by redo leaves historyIndex and bubbles as they were.
UndoThenRedoRestores ==
    (~crashed /\ historyIndex > 0) =>
        LET u == UndoResult(history, historyIndex, bubbles)
            r == RedoResult(history, u.historyIndex, u.bubbles)
        IN  ~u.crashed /\ r.historyIndex = historyIndex /\ r.bubbles = bubbles

\* C10: whenever the region translation of a drawn box fails, the placeholder
\* is no longer in the store and the failed attempt left no history entry.
RegionFailureLeavesNoTrace ==
    (ev.op = "regionResolved" /\ ~ev.input.ok) =>
        /\ ev.arg \notin Ids(bubbles)
        /\ Len(history) = ev.len
        /\ historyIndex = ev.idx

(***************************************************************************)
(* Claims about the chain decomposition                                    *)
(***************************************************************************)
NodesOf(conn) == {conn[i][1] : i \in 1..Len(conn)} \cup {conn[i][2] : i \in 1..Len(conn)}

OutDegree(conn, n) == Cardinality({i \in 1..Len(conn) : conn[i][1] = n})

HasLink(conn, a, b) == \E i \in 1..Len(conn) : conn[i] = <<a, b>>

\* some set of nodes in which every node has a link to a node of the set
HasCycle(conn) ==
    \E S \in SUBSET NodesOf(conn) :
        S # {} /\ \A n \in S : \E m \in S : HasLink(conn, n, m)

DisjointPaths(conn) ==
    /\ \A n \in NodesOf(conn) : InDegree(conn, n) <= 1 /\ OutDegree(conn, n) <= 1
    /\ ~HasCycle(conn)

FirstAppearance(conn, n) ==
    CHOOSE i \in 1..Len(conn) :
        /\ n \in {conn[i][1], conn[i][2]}
        /\ \A j \in 1..(i - 1) : n \notin {conn[j][1], conn[j][2]}

\* cs lists the maximal paths of conn, each from its start node along the
\* links, ordered by where the start nodes first appear in conn
IsPathDecomposition(conn, cs) ==
    /\ \A n \in NodesOf(conn) :
          Cardinality({<<k, i>> \in (1..Len(cs)) \X (1..(Len(conn) + 1)) :
                          i <= Len(cs[k]) /\ cs[k][i] = n}) = 1
    /\ \A k \in 1..Len(cs) :
          /\ cs[k] # <<>>
          /\ SeqToSet(cs[k]) \subseteq NodesOf(conn)
          /\ InDegree(conn, cs[k][1]) = 0
          /\ OutDegree(conn, cs[k][Len(cs[k])]) = 0
          /\ \A i \in 1..(Len(cs[k]) - 1) : HasLink(conn, cs[k][i], cs[k][i + 1])
    /\ \A k \in 1..Len(cs) : \A l \in 1..Len(cs) :
          (k < l) => FirstAppearance(conn, cs[k][1]) < FirstAppearance(conn, cs[l][1])

ExampleLinks == <<<<BubbleA, BubbleB>>, <<BubbleB, BubbleC>>, <<BubbleD, BubbleE>>>>

ExampleChains == <<<<BubbleA, BubbleB, BubbleC>>, <<BubbleD, BubbleE>>>>

\* C7: when the links form vertex-disjoint simple directed paths, the finished
\* decomposition is exactly those paths, each in link direction, ordered by
\* the first appearance of their start node in the link list; the links
\* [(A,B),(B,C),(D,E)] give [[A,B,C],[D,E]].
DisjointPathsDecomposeToThemselves ==
    (walk.pc = "done" /\ DisjointPaths(walk.conn)) =>
        /\ IsPathDecomposition(walk.conn, walk.chains)
        /\ Chains(walk.conn) = walk.chains
        /\ (walk.conn = ExampleLinks => walk.chains = ExampleChains)

DisjointPathsDecomposed ==
    /\ walk.pc = "done"
    /\ walk.conn = ExampleLinks
    /\ walk.chains = ExampleChains
    /\ DisjointPaths(walk.conn)

\* every node has one link in and one link out, and no proper part of the
\* nodes is closed under the links
SingleCycle(conn) ==
    /\ conn # <<>>
    /\ \A n \in NodesOf(conn) : InDegree(conn, n) = 1 /\ OutDegree(conn, n) = 1
    /\ \A S \in SUBSET NodesOf(conn) :
          (S # {} /\ \A n \in S : \E m \in S : HasLink(conn, n, m)) => S = NodesOf(conn)

CycleLinks == <<<<BubbleA, BubbleB>>, <<BubbleB, BubbleC>>, <<BubbleC, BubbleA>>>>

\* C8: the chain walk of every link list terminates, each pass of the while
\* loop visiting a new node; a link list that is one directed cycle
\* decomposes to exactly one chain holding every node of the cycle once.
ChainWalkTerminates ==
    /\ <>(walk.pc = "done")
    /\ [](walk.iterations < Cardinality(NodesOf(walk.conn)))
    /\ []((walk.pc = "done" /\ SingleCycle(walk.conn)) =>
            /\ Len(walk.chains) = 1
            /\ Len(walk.chains[1]) = Cardinality(NodesOf(walk.conn))
            /\ SeqToSet(walk.chains[1]) = NodesOf(walk.conn))

CycleDecomposed ==
    /\ walk.pc = "done"
    /\ walk.conn = CycleLinks
    /\ SingleCycle(walk.conn)
    /\ walk.chains = <<<<BubbleA, BubbleB, BubbleC>>>>

(***************************************************************************)
(* Claims about links                                                      *)
(***************************************************************************)
\* C4: in every reachable state no link joins a bubble to itself and no two
\* links join the same two bubbles, in either direction.
NoSelfLoopNoDuplicateLink ==
    /\ \A i \in 1..Len(connections) : connections[i][1] # connections[i][2]
    /\ \A i \in 1..Len(connections) : \A j \in 1..Len(connections) :
          (i < j) =>
              /\ connections[i] # connections[j]
              /\ connections[i] # <<connections[j][2], connections[j][1]>>

\* a link requested against the direction of an existing one was refused
ReverseLinkRefused ==
    /\ ev.op = "linkClick"
    /\ ev.active # Null
    /\ ev.arg # Null
    /\ ev.arg # ev.active
    /\ Len(connections) = ev.links
    /\ \E i \in 1..Len(connections) : connections[i] = <<ev.arg, ev.active>>

\* C5: in link mode with no links and no active node, the clicks on A, B, C
\* in that order build the link list [(A,B),(B,C)], and a later click on B
\* with A active adds no second link between A and B.
LinkScenario ==
    [][(ev'.op = "linkClick" /\ tool = "tree") =>
        /\ (connections = <<>> /\ activeTreeNode = Null /\ ev'.arg = BubbleA) =>
              (connections' = <<>> /\ activeTreeNode' = BubbleA)
        /\ (connections = <<>> /\ activeTreeNode = BubbleA /\ ev'.arg = BubbleB) =>
              (connections' = <<<<BubbleA, BubbleB>>>> /\ activeTreeNode' = BubbleB)
        /\ (connections = <<<<BubbleA, BubbleB>>>> /\ activeTreeNode = BubbleB
                /\ ev'.arg = BubbleC) =>
              (connections' = <<<<BubbleA, BubbleB>>, <<BubbleB, BubbleC>>>>
                /\ activeTreeNode' = BubbleC)
        /\ (connections = <<<<BubbleA, BubbleB>>, <<BubbleB, BubbleC>>>>
                /\ activeTreeNode = BubbleA /\ ev'.arg = BubbleB) =>
              (connections' = connections /\ activeTreeNode' = BubbleB)
    ]_vars

\* A, B, C were linked, A was made the active node again and B was clicked
DuplicateLinkRefused ==
    /\ ev.op = "linkClick"
    /\ ev.active = BubbleA
    /\ ev.arg = BubbleB
    /\ ev.links = 2
    /\ connections = <<<<BubbleA, BubbleB>>, <<BubbleB, BubbleC>>>>
    /\ activeTreeNode = BubbleB

\* C6: a delete removes the bubble from the store and every link that has it
\* as source or target, and leaves the other bubbles and links as they were.
DeleteCascadesToLinks ==
    [][ev'.op = "delete" =>
        LET OtherBubble(b) == b.id # ev'.arg
            OtherLink(c) == c[1] # ev'.arg /\ c[2] # ev'.arg
        IN  /\ ev'.arg \in Ids(bubbles)
            /\ bubbles' = SelectSeq(bubbles, OtherBubble)
            /\ connections' = SelectSeq(connections, OtherLink)
    ]_vars

\* B was deleted while linked as a target and as a source; the link between
\* the two other bubbles is still there
DeletedLinkedBubble ==
    /\ ev.op = "delete"
    /\ ev.arg = BubbleB
    /\ ev.links = 3
    /\ connections = <<<<BubbleC, BubbleA>>>>
    /\ Ids(bubbles) = {BubbleA, BubbleC}

(***************************************************************************)
(* Claims about gestures on a bubble                                       *)
(***************************************************************************)
ValidBox(box) ==
    /\ box.xmin < box.xmax
    /\ box.ymin < box.ymax
    /\ \A v \in {box.xmin, box.ymin, box.xmax, box.ymax} : 0 <= v /\ v <= BoxScale

\* C3: the box of a bubble that started valid stays valid through every drag
\* and resize move: xmin < xmax, ymin < ymax, all four values in [0,1000].
BoxesStayValid ==
    \A i \in 1..Len(bubbles) : ValidBox(bubbles[i].box)

(***************************************************************************)
(* Claims about drawn boxes                                                *)
(***************************************************************************)
\* C9: a draw gesture of at least the threshold size adds exactly one bubble,
\* whose box is the gesture rectangle in 0-1000 units, whose shape is the
\* shape chosen for drawing and whose fontSizeScale is 1; the successful
\* response puts its text and colors into that bubble and changes nothing
\* else of it, and adds no other bubble.
DrawAddsTranslatedBubble ==
    [][/\ (ev'.op = "draw" /\ ev'.input = "request") =>
            LET sel == drawSelection[1]
                placed == bubbles'[Len(bubbles')]
            IN  /\ Len(bubbles') = Len(bubbles) + 1
                /\ SubSeq(bubbles', 1, Len(bubbles)) = bubbles
                /\ placed.id = ev'.arg
                /\ placed.box.xmin * RelDen = 1000 * Min(sel.start.x, sel.current.x)
                /\ placed.box.xmax * RelDen = 1000 * Max(sel.start.x, sel.current.x)
                /\ placed.box.ymin * RelDen = 1000 * Min(sel.start.y, sel.current.y)
                /\ placed.box.ymax * RelDen = 1000 * Max(sel.start.y, sel.current.y)
                /\ placed.shape = drawShape
                /\ placed.fontSizeScale = 10
                /\ pending' = Append(pending, pending'[Len(pending')])
                /\ pending'[Len(pending')].temp = <<placed>>
       /\ (ev'.op = "regionResolved" /\ ev'.input.ok /\ ev'.arg \in Ids(bubbles)) =>
            \E k \in 1..Len(pending) :
                /\ pending[k].temp # Null
                /\ pending[k].temp[1].id = ev'.arg
                /\ Len(bubbles') = Len(bubbles)
                /\ \A i \in 1..Len(bubbles) :
                      bubbles'[i] =
                          IF bubbles[i].id = ev'.arg
                          THEN [pending[k].temp[1] EXCEPT
                                   !.text = ev'.input.translated_text,
                                   !.textColor = ev'.input.text_color,
                                   !.backgroundColor = ev'.input.background_color]
                          ELSE bubbles[i]
    ]_vars

\* an ellipse drawn from (0.4,0.6) back to (0.1,0.2) and translated
DrawnBubbleTranslated ==
    /\ ev.op = "regionResolved"
    /\ ev.input = RegionOk("Hola", Red, Yellow)
    /\ Len(bubbles) = 1
    /\ bubbles[1].id = ev.arg
    /\ bubbles[1].box = [xmin |-> 100, ymin |-> 200, xmax |-> 400, ymax |-> 600]
    /\ bubbles[1].shape = "ellipse"
    /\ bubbles[1].fontSizeScale = 10
    /\ bubbles[1].text = "Hola"
    /\ bubbles[1].textColor = Red
    /\ bubbles[1].backgroundColor = Yellow

(***************************************************************************)
(* C11: a response for a removed placeholder                               *)
(***************************************************************************)
\* C11: when the placeholder of a manual draw is no longer in bubbles (it was
\* deleted or undone while translateRegion was outstanding), the response
\* changes nothing: bubbles is unchanged, no bubble with that id comes back,
\* and history and historyIndex are unchanged.
ResponseForRemovedPlaceholderIgnored ==
    [][(ev'.op = "regionResolved" /\ ev'.arg \notin Ids(bubbles)) =>
          /\ bubbles' = bubbles
          /\ ev'.arg \notin Ids(bubbles')
          /\ history' = history
          /\ historyIndex' = historyIndex
    ]_vars

(***************************************************************************)
(* C12: two region requests outstanding together                           *)
(***************************************************************************)
RegionRequests == {i \in 1..Len(pending) : pending[i].kind = "region"}

\* the two responses applied to bubbles in either order give the same bubbles
RegionResponsesCommute ==
    \A i, j \in RegionRequests : \A ri, rj \in DrawRegionResponses :
        i # j =>
            RegionUpdate(RegionUpdate(bubbles, pending[i].temp[1], ri),
                         pending[j].temp[1], rj)
          = RegionUpdate(RegionUpdate(bubbles, pending[j].temp[1], rj),
                         pending[i].temp[1], ri)

\* a response that arrives while another request is outstanding changes no
\* bubble but the one with its own id
RegionResponseTouchesOwnBubble ==
    (ev'.op = "regionResolved" /\ Cardinality(RegionRequests) >= 2) =>
        /\ Len(bubbles') = Len(bubbles)
        /\ \A k \in 1..Len(bubbles) :
              bubbles[k].id # ev'.arg => bubbles'[k] = bubbles[k]
        /\ \A k \in 1..Len(bubbles) :
              bubbles[k].id = ev'.arg =>
                  /\ bubbles'[k].id = ev'.arg
                  /\ bubbles'[k].text = translateRegion(ev'.input).text

\* C12: with two manual-draw region requests outstanding together, each
\* response updates only the bubble with its own id, and the bubbles after
\* both responses are the same whichever response is applied first.
ConcurrentRegionResponsesIndependent ==
    []RegionResponsesCommute /\ [][RegionResponseTouchesOwnBubble]_vars

\* two boxes drawn one after the other, the second translated first ("Error"),
\* then the first ("Hola")
TwoRegionsResolvedOutOfOrder ==
    /\ pending = <<>>
    /\ Len(bubbles) = 2
    /\ ev.op = "regionResolved"
    /\ ev.arg = bubbles[1].id
    /\ ev.input = RegionOk("Hola", Red, Yellow)
    /\ bubbles[1].text = "Hola"
    /\ bubbles[2].text = "Error"
    /\ bubbles[1].id # bubbles[2].id

(***************************************************************************)
(* C13: two completions in a row                                           *)
(***************************************************************************)
Completions == {"regionResolved", "scanResolved", "retranslateResolved"}

\* C13: when two asynchronous completions that commit resolve one after the
\* other, starting with historyIndex on the last entry, each adds one entry
\* equal to the bubbles at that moment: after the second, history is two
\* entries longer than before the first and historyIndex is on its last entry.
TwoCompletionsTwoEntries ==
    [][(/\ ev.op \in Completions /\ ev.commit
        /\ ev'.op \in Completions /\ ev'.commit
        /\ ev.idx = ev.len - 1) =>
          /\ Len(history) = ev.len + 1
          /\ history[Len(history)] = bubbles
          /\ Len(history') = ev.len + 2
          /\ history'[Len(history')] = bubbles'
          /\ historyIndex' = Len(history') - 1
    ]_vars

(***************************************************************************)
(* Claims about outstanding scans and batch retranslations                 *)
(***************************************************************************)
ScanRequests == {i \in 1..Len(pending) : pending[i].kind = "scan"}

\* C14: in every reachable state at most one full-scan request is
\* outstanding, whatever the interleaving of scan and batch-retranslation
\* starts and completions.
AtMostOneScanOutstanding == Cardinality(ScanRequests) <= 1

\* C15: the bubbles after a full scan or a batch retranslation completes are
\* the bubbles of the store at completion time with the results applied: the
\* scan only appends what it detected and the retranslation only changes
\* texts, so nothing deleted while the request was outstanding comes back
\* and nothing moved, edited or created meanwhile is lost.
CompletionKeepsConcurrentChanges ==
    [][/\ (ev'.op = "scanResolved" /\ ev'.commit) =>
             /\ Len(bubbles') = Len(bubbles) + Len(ev'.input.items)
             /\ SubSeq(bubbles', 1, Len(bubbles)) = bubbles
       /\ (ev'.op = "retranslateResolved" /\ ev'.commit) =>
             /\ Len(bubbles') = Len(bubbles)
             /\ \A k \in 1..Len(bubbles) :
                   bubbles'[k] = [bubbles[k] EXCEPT !.text = bubbles'[k].text]
    ]_vars

\* C16: the completion of a batch retranslation pass adds one history entry
\* (the kept entries followed by the new bubbles), whatever the number of
\* chains, and one undo right after it gives every linked bubble the text it
\* had when the pass was started.
PassIsOneUndoableStep ==
    [][(ev'.op = "retranslateResolved" /\ ev'.commit) =>
          /\ \E n \in 0..Len(history) :
                history' = Append(SubSeq(history, 1, n), bubbles')
          /\ \A i \in 1..Len(pending) :
                (pending[i].kind = "retranslate" /\ pending' = RemoveAt(pending, i)) =>
                    LET before == pending[i].bubbles
                        undone == UndoResult(history', historyIndex', bubbles')
                    IN  /\ ~undone.crashed
                        /\ \A k \in 1..Len(before) :
                              before[k].id \in NodesOf(connections) =>
                                  /\ before[k].id \in Ids(undone.bubbles)
                                  /\ FindBubble(undone.bubbles, before[k].id).text
                                        = before[k].text
    ]_vars

\* the text of every bubble of bs, by id
Texts(bs) == {<<bs[k].id, bs[k].text>> : k \in 1..Len(bs)}

\* what one response does to the pass that waited for it: c is its
\* continuation before the step, after the one after it (Null when it ended)
ChainStep(c, after, raw) ==
    LET chain == SeqToSet(Head(c.chains))
        result == IF after = Null THEN bubbles' ELSE after[1].updated
    IN  /\ Len(result) = Len(c.updated)
        /\ \A k \in 1..Len(c.updated) :
              /\ result[k].id = c.updated[k].id
              /\ result[k].text =
                    IF raw.ok /\ raw.mode = "all" /\ c.updated[k].id \in chain
                       /\ c.updated[k].id \in Ids(c.bubbles)
                    THEN RetranslatedText ELSE c.updated[k].text
        /\ after # Null => after[1].chains = Tail(c.chains)
        /\ after = Null =>
              /\ Tail(c.chains) = <<>>
              /\ ev'.commit
              /\ history'[Len(history')] = bubbles'
              /\ historyIndex' = historyIndex + 1

\* C17: when the retranslation of one chain fails, the bubbles of that chain
\* keep their text, the chains after it are still submitted and their
\* results applied, and the pass still ends with its commit.
ChainFailureIsLocal ==
    [][(ev'.op = "retranslateResolved") =>
          \A i \in 1..Len(pending) :
              /\ (Len(pending') = Len(pending) /\ pending'[i] # pending[i]) =>
                     ChainStep(pending[i], <<pending'[i]>>, ev'.input)
              /\ (pending[i].kind = "retranslate" /\ pending' = RemoveAt(pending, i)) =>
                     ChainStep(pending[i], Null, ev'.input)
    ]_vars

\* two chains: the request for the first failed, the second was answered,
\* and the pass committed
SecondChainAppliedAfterFailure ==
    /\ ev.op = "retranslateResolved"
    /\ ev.commit
    /\ ev.input.ok
    /\ connections = << <<BubbleA, BubbleB>>, <<BubbleC, BubbleD>> >>
    /\ Texts(bubbles) = {<<BubbleA, "one">>, <<BubbleB, "two">>,
                         <<BubbleC, RetranslatedText>>, <<BubbleD, RetranslatedText>>}
    /\ history[Len(history)] = bubbles
    /\ Len(history) = 3

\* C18: the completion of a full scan whose request failed leaves bubbles,
\* history and historyIndex as they are, shows the "Auto scan failed" alert
\* and clears isProcessing.
FailedScanChangesNothing ==
    [][(ev'.op = "scanResolved" /\ ~ev'.input.ok) =>
          /\ bubbles' = bubbles
          /\ history' = history
          /\ historyIndex' = historyIndex
          /\ alert' = ScanFailedAlert
          /\ alert' # NoAlert
          /\ isProcessing' = FALSE
    ]_vars

\* a scan of the four-bubble page failed
ScanFailed ==
    /\ ev.op = "scanResolved"
    /\ ~ev.input.ok
    /\ ~ev.commit
    /\ alert = ScanFailedAlert
    /\ ~isProcessing
    /\ ScanRequests = {}
    /\ bubbles = BatchPage
    /\ Len(history) = ev.len
    /\ historyIndex = ev.idx

(***************************************************************************)
(* Claims about gesture sub-states                                         *)
(***************************************************************************)
ActiveGestures ==
    {g \in {"dragging", "resizing", "drawing", "linking"} :
        \/ g = "dragging" /\ draggingId # Null
        \/ g = "resizing" /\ resizingId # Null
        \/ g = "drawing" /\ drawSelection # Null
        \/ g = "linking" /\ activeTreeNode # Null}

\* C19: in every reachable state, tool switches and mouse leave included, at
\* most one of draggingId, resizingId, drawSelection and activeTreeNode is set.
AtMostOneGestureActive == Cardinality(ActiveGestures) <= 1

\* C20: a drag or resize that ends with a commit has changed the box of its
\* bubble: the box at pointer-up differs from the box the bubble has in the
\* snapshot that historyIndex designated when the gesture ended (its box at
\* pointer-down).
GestureCommitsOnlyChanges ==
    (/\ ev.op \in {"dragEnd", "resizeEnd"} /\ ev.commit
     /\ ev.arg \in Ids(bubbles)
     /\ ev.arg \in Ids(history[ev.idx + 1])) =>
        FindBubble(bubbles, ev.arg).box # FindBubble(history[ev.idx + 1], ev.arg).box
(***************************************************************************)
(* Claims about the text layout                                            *)
(***************************************************************************)
\* C21: for every bubble, the font size in pixels and the padding fraction
\* per side (4 for rectangles, 12 for ellipses) that handleDownload drew with
\* are those of the bubble overlay for the same bubble and the same image.
ExportMatchesLiveRender ==
    ev.op = "download" =>
        /\ Len(canvas[1].items) = Len(bubbles)
        /\ \A k \in 1..Len(bubbles) :
              /\ canvas[1].items[k].fontSize
                    = LiveStyle(bubbles[k], <<canvas[1].image>>).fontSize
              /\ canvas[1].items[k].padding
                    = LiveStyle(bubbles[k], <<canvas[1].image>>).padding
              /\ canvas[1].items[k].padding
                    = IF bubbles[k].shape = "ellipse" THEN 12 ELSE 4

\* an ellipse with a changed font scale was exported from an image whose
\* natural width is not 1000
ScaledEllipseExported ==
    /\ ev.op = "download"
    /\ canvas[1].image.naturalWidth = 2000
    /\ \E k \in 1..Len(bubbles) :
          /\ bubbles[k].shape = "ellipse"
          /\ bubbles[k].fontSizeScale = 13
          /\ canvas[1].items[k].padding = 12

(***************************************************************************)
(* Claims about malformed responses                                        *)
(***************************************************************************)
\* the colors the bubble overlay and handleDownload paint a bubble with
RenderedTextColor(b) == OrDefault(b.textColor, Black)
RenderedBackgroundColor(b) == OrDefault(b.backgroundColor, White)

ScanLacksField(raw) ==
    /\ raw.ok
    /\ \E k \in 1..Len(raw.items) :
          \/ raw.items[k].box_2d = Null
          \/ Undefined \in {raw.items[k].translated_text, raw.items[k].text_color,
                            raw.items[k].background_color}

RegionLacksField(raw) ==
    raw.ok /\ Undefined \in {raw.translated_text, raw.text_color, raw.background_color}

\* the entry of response raw that bubble b, the k-th of the bubbles added,
\* was made from had its colors or b is painted with the defaults
ScanDefaultsPainted(raw, k, b) ==
    /\ (raw.items[k].text_color = Undefined) => (RenderedTextColor(b) = Black)
    /\ (raw.items[k].background_color = Undefined) => (RenderedBackgroundColor(b) = White)

RegionDefaultsStored(raw, b) ==
    /\ (raw.text_color = Undefined) => (b.textColor = Black)
    /\ (raw.background_color = Undefined) => (b.backgroundColor = White)
    /\ (raw.translated_text = Undefined) => (b.text # Undefined)

\* C22: when the response of a collaborator lacks the translated text, a
\* color or the box of a detected bubble, the continuation completes without
\* raising (no crash, no failure alert), the affected bubble is in the
\* collection, and a color that was missing is painted with its default
\* (black text, white background).
MalformedResponseGetsDefaults ==
    [][ /\ (ev'.op = "scanResolved" /\ ScanLacksField(ev'.input)) =>
             (/\ ~crashed'
              /\ alert' # ScanFailedAlert
              /\ ev'.commit
              /\ \A k \in 1..Len(ev'.input.items) :
                    ScanDefaultsPainted(ev'.input, k,
                        bubbles'[Len(bubbles') - Len(ev'.input.items) + k]))
        /\ (ev'.op = "regionResolved" /\ RegionLacksField(ev'.input)
               /\ ev'.arg \in Ids(bubbles')) =>
             (/\ ~crashed'
              /\ RegionDefaultsStored(ev'.input, FindBubble(bubbles', ev'.arg)))
        /\ (ev'.op = "retranslateResolved" /\ ev'.input.mode = "untranslated") =>
             ~crashed'
      ]_vars

(***************************************************************************)
(* Claims about the ends of the history                                    *)
(***************************************************************************)
\* C23: undo at history index 0 and redo at the last history index are
\* no-ops: the history index, the snapshots and the bubbles are unchanged.
UndoRedoAtEndsAreNoOps ==
    [][((ev'.op = "undo" /\ historyIndex = 0)
          \/ (ev'.op = "redo" /\ historyIndex = Len(history) - 1))
         => UNCHANGED <<historyIndex, history, bubbles>>]_vars

\* redo was pressed at the last index during a drag that had already moved
\* the bubble away from the last snapshot
RedoPressedAtLastIndex ==
    /\ ev.op = "redo"
    /\ ev.idx = ev.len - 1
    /\ historyIndex = Len(history) - 1
    /\ draggingId # Null
    /\ bubbles # history[historyIndex + 1]

(***************************************************************************)
(* Claims about drawing a bubble                                           *)
(***************************************************************************)
\* the bubble at the position of id is replaced, every other one is kept
ReplacedInPlace(before, after, id, text) ==
    /\ Len(after) = Len(before)
    /\ \A k \in 1..Len(before) :
          IF before[k].id = id
          THEN after[k].id = id /\ after[k].text = text
          ELSE after[k] = before[k]

\* C24: a draw that meets the threshold appends the placeholder bubble and
\* leaves the history alone; when its region translation succeeds, the
\* placeholder is replaced where it is by the resolved bubble with the same
\* id, and exactly one history entry, the resulting collection, is added.
DrawInsertsThenCommitsOnce ==
    [][ /\ (ev'.op = "draw" /\ ev'.input = "request") =>
              (/\ UNCHANGED <<history, historyIndex>>
               /\ Len(bubbles') = Len(bubbles) + 1
               /\ SubSeq(bubbles', 1, Len(bubbles)) = bubbles
               /\ bubbles'[Len(bubbles')].id = ev'.arg
               /\ bubbles'[Len(bubbles')].text = Placeholder)
        /\ (ev'.op = "regionResolved" /\ ev'.input.ok /\ ev'.arg \in Ids(bubbles)) =>
              (/\ ReplacedInPlace(bubbles, bubbles', ev'.arg, ev'.input.translated_text)
               /\ Len(history') = Len(history) + 1
               /\ SubSeq(history', 1, Len(history)) = history
               /\ history'[Len(history')] = bubbles')
      ]_vars

Abs(n) == IF n < 0 THEN -n ELSE n

\* width or height below 1% of the normalized space
TooSmall(sel) ==
    \/ Abs(sel.current.x - sel.start.x) * 100 < RelDen
    \/ Abs(sel.current.y - sel.start.y) * 100 < RelDen

\* C25: releasing a draw selection whose width or height is below 1% of the
\* normalized space creates no bubble, starts no region request, leaves the
\* bubbles and the history unchanged, and clears the drawing state.
SmallDrawIsDiscarded ==
    [][(ev'.op \in {"mouseUp", "draw"} /\ drawSelection # Null
          /\ TooSmall(drawSelection[1]))
         => (/\ UNCHANGED <<bubbles, history, historyIndex, pending>>
             /\ drawSelection' = Null)]_vars

\* a selection 0.5% wide was released on a page that already had a bubble
SmallDrawReleased ==
    /\ ev.op = "mouseUp"
    /\ ev.input # Null
    /\ Abs(ev.input[1].current.x - ev.input[1].start.x) = 50
    /\ drawSelection = Null
    /\ Len(bubbles) = 1

(***************************************************************************)
(* Claims about resizing                                                   *)
(***************************************************************************)
\* the edges of box opposite the corner handle are those of before
OppositeEdgesKept(before, box, handle) ==
    /\ (handle \in {"nw", "sw"}) => (box.xmax = before.xmax)
    /\ (handle \in {"ne", "se"}) => (box.xmin = before.xmin)
    /\ (handle \in {"nw", "ne"}) => (box.ymax = before.ymax)
    /\ (handle \in {"sw", "se"}) => (box.ymin = before.ymin)

\* C26: after every pointer move of a resize with the handle nw, ne, sw or
\* se, the box of the resized bubble is at least 10 units wide and 10 units
\* high, and its two edges opposite the handle are unchanged.
ResizeKeepsMinimumSize ==
    [][(ev'.op = "mouseMove" /\ ~isPanning /\ resizingId \in Ids(bubbles)
          /\ resizeHandle \in {"nw", "ne", "sw", "se"})
         => LET before == FindBubble(bubbles, resizingId).box
                box == FindBubble(bubbles', resizingId).box
            IN  /\ box.xmax - box.xmin >= 10
                /\ box.ymax - box.ymin >= 10
                /\ OppositeEdgesKept(before, box, resizeHandle)]_vars

\* the nw handle was moved past the opposite corner: the box is clamped to
\* 10 by 10 against its xmax and ymax
ResizeClamped ==
    /\ ev.op = "mouseMove"
    /\ resizingId \in Ids(bubbles)
    /\ resizeHandle = "nw"
    /\ LET box == FindBubble(bubbles, resizingId).box
       IN  /\ box.xmax - box.xmin = 10
           /\ box.ymax - box.ymin = 10
           /\ box.xmax = 300
           /\ box.ymax = 300

(***************************************************************************)
(* Claims about link mode                                                  *)
(***************************************************************************)
\* C27: in link mode a click on a bubble with no active node makes it the
\* active node; a click on a bubble other than the active node makes the
\* clicked bubble the active node, whether or not a link was created; a click
\* on the active node itself or on empty space clears the active node and
\* creates no link.
LinkClickMovesActiveNode ==
    [][(ev'.op = "linkClick" /\ tool = "tree") =>
        /\ (ev'.arg # Null /\ activeTreeNode = Null) => (activeTreeNode' = ev'.arg)
        /\ (ev'.arg # Null /\ activeTreeNode # Null /\ ev'.arg # activeTreeNode) =>
              (activeTreeNode' = ev'.arg)
        /\ (ev'.arg = Null \/ (activeTreeNode # Null /\ ev'.arg = activeTreeNode)) =>
              (activeTreeNode' = Null /\ connections' = connections)
    ]_vars

\* the active node, an end of a link, was clicked again
ActiveNodeClickedAgain ==
    /\ ev.op = "linkClick"
    /\ ev.active # Null
    /\ ev.arg = ev.active
    /\ activeTreeNode = Null
    /\ ev.links = 1
    /\ connections # <<>>
    /\ connections[1][2] = ev.arg

\* C28: creating a link leaves the snapshots, the history index and the
\* bubbles unchanged, and undo and redo leave the link list unchanged.
LinksAreOutsideHistory ==
    [][ /\ (ev'.op = "linkClick" /\ editingId = Null) =>
              UNCHANGED <<history, historyIndex, bubbles>>
        /\ (ev'.op \in {"undo", "redo"}) => UNCHANGED connections
      ]_vars

\* two links were created and the scan was undone: the page is empty and the
\* links are still there
UndoKeptLinks ==
    /\ ev.op = "undo"
    /\ ev.idx = 1
    /\ historyIndex = 0
    /\ bubbles = <<>>
    /\ Len(history) = 2
    /\ Len(connections) = 2

(***************************************************************************)
(* Claims about the viewport                                               *)
(***************************************************************************)
\* a step of the viewport: wheel, zoom button, the start of a pan (pan tool,
\* middle button or space and left button), a pointer move or release
\* while panning
ViewportStep ==
    \/ ev'.op \in {"wheel", "zoomIn", "zoomOut", "panStart", "panEnd"}
    \/ ev'.op = "mouseMove" /\ isPanning

\* C29: wheel zoom, the zoom buttons and a pan (by the pan tool, the middle
\* button or space and drag) never change the bubbles, the links or the
\* history, whichever tool is selected and whatever gesture is pending.
ViewportLeavesStoreAlone ==
    [][ViewportStep => UNCHANGED <<bubbles, connections, history, historyIndex>>]_vars

\* the page was panned with the middle button during a resize that had
\* already changed the box
PannedDuringResize ==
    /\ ev.op = "mouseMove"
    /\ isPanning
    /\ offset.x # 0
    /\ resizingId # Null
    /\ tool = "select"
    /\ bubbles # history[historyIndex + 1]

RECURSIVE WordsFrom(_, _)
\* the words of a text: its maximal runs of characters other than the space;
\* word is the run read so far
WordsFrom(text, word) ==
    IF text = <<>> THEN (IF word = <<>> THEN <<>> ELSE <<word>>)
    ELSE IF Head(text) = Space
         THEN (IF word = <<>> THEN <<>> ELSE <<word>>) \o WordsFrom(Tail(text), <<>>)
         ELSE WordsFrom(Tail(text), Append(word, Head(text)))

RECURSIVE WordsOfLines(_)
\* the words of the lines, read line by line
WordsOfLines(lines) ==
    IF lines = <<>> THEN <<>>
    ELSE WordsFrom(Head(lines), <<>>) \o WordsOfLines(Tail(lines))

Targets(conn, S) == {conn[i][2] : i \in {j \in 1..Len(conn) : conn[j][1] \in S}}

RECURSIVE ReachFrom(_, _)
\* S and every node some path of links leads to from a node of S
ReachFrom(conn, S) ==
    LET T == S \cup Targets(conn, S)
    IN  IF T = S THEN S ELSE ReachFrom(conn, T)

\* the nodes below n: those a path of one link or more leads to from n
Below(conn, n) == ReachFrom(conn, Targets(conn, {n}))

\* the chain of the decomposition that holds n
ChainOf(conn, n) ==
    LET cs == Chains(conn)
    IN  cs[CHOOSE k \in 1..Len(cs) : n \in SeqToSet(cs[k])]

\* the nodes that lie only on the other branches of n: below n, off the chain
\* through n, and entered only from n or from nodes below n
OnOtherBranches(conn, n) ==
    {m \in Below(conn, n) \ SeqToSet(ChainOf(conn, n)) :
        \A i \in 1..Len(conn) :
            conn[i][2] = m => conn[i][1] \in Below(conn, n) \cup {n}}

Branching(conn) == {n \in NodesOf(conn) : OutDegree(conn, n) > 1}

\* C32: when a node has more than one outgoing link, the pass submits one
\* chain through it, and the bubbles that lie only on its other branches are
\* in no submitted chain and have, when the pass commits, the text they had
\* when the pass was started.
OtherBranchesLeftUntouched ==
    [][ /\ (ev'.op = "retranslate" /\ Len(pending') = Len(pending) + 1) =>
              \A n \in Branching(connections) :
                  LET todo == pending'[Len(pending')].chains
                  IN  /\ Cardinality({k \in 1..Len(todo) : n \in SeqToSet(todo[k])}) <= 1
                      /\ \A m \in OnOtherBranches(connections, n) :
                            \A k \in 1..Len(todo) : m \notin SeqToSet(todo[k])
        /\ (ev'.op = "retranslateResolved" /\ ev'.commit) =>
              \A i \in 1..Len(pending) :
                  (pending[i].kind = "retranslate" /\ pending' = RemoveAt(pending, i)) =>
                      \A n \in Branching(connections) :
                          \A m \in OnOtherBranches(connections, n) :
                              \A k \in 1..Len(bubbles') :
                                  bubbles'[k].id = m =>
                                      bubbles'[k].text = FindBubble(pending[i].bubbles, m).text
    ]_vars

(***************************************************************************)
(* Claims about the lists sent for retranslation                           *)
(***************************************************************************)
\* C33: every list a batch pass submits to retranslateContextAware (the
\* chainData of every chain of every pass outstanding) has at least two
\* entries.
SubmittedListsHaveTwoEntries ==
    \A i \in 1..Len(pending) :
        pending[i].kind = "retranslate" =>
            \A k \in 1..Len(pending[i].chains) :
                Len(ChainData(pending[i].chains[k], pending[i].bubbles)) >= 2

(***************************************************************************)
(* Claims about the history and its index                                  *)
(***************************************************************************)
\* C34: in every reachable state the history is not empty and the index
\* designates one of its snapshots: 0 <= historyIndex < history.length.
HistoryIndexInRange ==
    /\ Len(history) >= 1
    /\ 0 <= historyIndex
    /\ historyIndex < Len(history)

\* C35: right after every commit, undo or redo that changes the index, the
\* bubbles shown are the snapshot at the current index.
BubblesAreCurrentSnapshot ==
    [][(historyIndex' # historyIndex /\ ~crashed') =>
          /\ historyIndex' + 1 \in 1..Len(history')
          /\ history'[historyIndex' + 1] = bubbles'
    ]_vars

(***************************************************************************)
(* Claims about the links and the bubbles they join                        *)
(***************************************************************************)
\* C36: in every reachable state both ends of every link are ids of bubbles
\* of the collection.
LinkEndsArePresent ==
    \A i \in 1..Len(connections) :
        /\ connections[i][1] \in Ids(bubbles)
        /\ connections[i][2] \in Ids(bubbles)

(***************************************************************************)
(* Claims about placeholders                                               *)
(***************************************************************************)
\* a bubble inserted by a draw and not yet replaced by the resolved bubble
IsPlaceholder(b) == b.isManual /\ b.text = Placeholder

\* C37: no snapshot of the history holds a placeholder bubble.
NoPlaceholderInHistory ==
    \A h \in 1..Len(history) :
        \A k \in 1..Len(history[h]) : ~IsPlaceholder(history[h][k])

(***************************************************************************)
(* Claims about the chains of any link list                                *)
(***************************************************************************)
\* the number of places of the chains cs that hold n
Occurrences(cs, n) ==
    Cardinality({<<k, i>> \in (1..Len(cs)) \X (1..(2 * MaxLinks + MaxIterations)) :
                    i <= Len(cs[k]) /\ cs[k][i] = n})

FollowsLinks(conn, c) ==
    \A i \in 1..(Len(c) - 1) : HasLink(conn, c[i], c[i + 1])

\* C38: for every link list, when the walk has finished every id that occurs
\* in a link occurs once in one chain (chains of one id included), the chains
\* hold no other id, and two consecutive ids of a chain are joined by a link
\* from the first to the second; while the walk runs no id occurs twice in
\* the chains built so far, and they follow the links.
ChainsPartitionTheNodes ==
    /\ \A n \in NodesOf(walk.conn) :
          Occurrences(Append(walk.chains, IF walk.pc = "chain" THEN walk.path ELSE <<>>), n) <= 1
    /\ \A k \in 1..Len(walk.chains) : FollowsLinks(walk.conn, walk.chains[k])
    /\ walk.pc = "chain" => FollowsLinks(walk.conn, walk.path)
    /\ walk.pc = "done" =>
          /\ \A n \in NodesOf(walk.conn) : Occurrences(walk.chains, n) = 1
          /\ \A k \in 1..Len(walk.chains) :
                /\ walk.chains[k] # <<>>
                /\ SeqToSet(walk.chains[k]) \subseteq NodesOf(walk.conn)
          /\ walk.chains = Chains(walk.conn)

\* the walk of a link list with a branch and a cycle has finished
BranchAndCycleDecomposed ==
    /\ walk.pc = "done"
    /\ walk.conn = << <<BubbleA, BubbleB>>, <<BubbleA, BubbleC>>,
                      <<BubbleC, BubbleD>>, <<BubbleD, BubbleA>> >>
    /\ walk.chains = << <<BubbleA, BubbleB>>, <<BubbleC, BubbleD>> >>

(***************************************************************************)
(* Claims about the busy flag                                              *)
(***************************************************************************)
Outstanding(kind) == \E i \in 1..Len(pending) : pending[i].kind = kind

\* the step is the end of a scan or of a pass: its continuation has run
\* through the finally block
RequestEnded ==
    /\ ev'.op \in {"scanResolved", "retranslateResolved"}
    /\ Len(pending') < Len(pending)

\* C39: every scan and every pass that is started ends, and the step that
\* ends it, after a success or a failure of its request, leaves isProcessing
\* false; a busy flag that is set is cleared later.
BusyFlagEventuallyCleared ==
    /\ [][RequestEnded => ~isProcessing']_vars
    /\ Outstanding("scan") ~> (ev.op = "scanResolved" /\ ~isProcessing)
    /\ Outstanding("retranslate") ~> (ev.op = "retranslateResolved" /\ ev.commit /\ ~isProcessing)
    /\ isProcessing ~> ~isProcessing

\* the scan request failed and the busy flag is cleared
BusyClearedAfterFailedScan ==
    /\ ev.op = "scanResolved"
    /\ ~ev.input.ok
    /\ ~isProcessing
    /\ pending = <<>>

(***************************************************************************)
(* Claims about what a pointer move changes                                *)
(***************************************************************************)
BoxWidth(box) == box.xmax - box.xmin

BoxHeight(box) == box.ymax - box.ymin

\* bubbles' differs from bubbles at most in the box of the bubble target
OnlyBoxOfChanged(target) ==
    /\ Len(bubbles') = Len(bubbles)
    /\ \A k \in 1..Len(bubbles) :
          IF bubbles[k].id = target
          THEN bubbles'[k] = [bubbles[k] EXCEPT !.box = bubbles'[k].box]
          ELSE bubbles'[k] = bubbles[k]

\* C40: a pointer move of a resize or of a drag changes at most the box of
\* the bubble resized or dragged: the other bubbles, the other fields of that
\* bubble, the history and the links are as before, and during a drag the
\* box keeps its width and its height.
MoveChangesOnlyTargetBox ==
    [][(ev'.op = "mouseMove" /\ ~isPanning /\ (resizingId # Null \/ draggingId # Null)) =>
          /\ OnlyBoxOfChanged(IF resizingId # Null THEN resizingId ELSE draggingId)
          /\ UNCHANGED <<history, historyIndex, connections>>
          /\ resizingId = Null =>
                \A k \in 1..Len(bubbles) :
                    /\ BoxWidth(bubbles'[k].box) = BoxWidth(bubbles[k].box)
                    /\ BoxHeight(bubbles'[k].box) = BoxHeight(bubbles[k].box)
    ]_vars

\* the second of three bubbles is being dragged and has moved; the first
\* and the third are where the scan put them
SecondBubbleDragged ==
    /\ ev.op = "mouseMove"
    /\ draggingId = BubbleB
    /\ isDragging
    /\ Len(bubbles) = 3
    /\ bubbles[2].id = BubbleB
    /\ bubbles[2].box # LinkedPage[2].box
    /\ bubbles[1] = LinkedPage[1]
    /\ bubbles[3] = LinkedPage[3]

====
